---- MODULE Spec2Model ----
(***************************************************************************)
(* State-machine model of the AUR mirror harvester (src/src/aur_fetcher.rs,*)
(* src/src/database.rs).                                                   *)
(* The git smart-HTTP client: packet-line reader, sideband demultiplexer,  *)
(* the two fetch phases, their temporary packfiles, and the join that      *)
(* fetch_srcinfo_batch returns.                                            *)
(***************************************************************************)
EXTENDS Integers, Sequences, FiniteSets, TLC

VARIABLES
    op,           \* the top-level operation being run
    commits,      \* fetch_srcinfo_batch: the caller's commit id strings
    token,        \* AurFetcher.github_token (NoToken when None)
    pc,           \* position of the running async fn
    phase,        \* "A", "B" (the running fetch phase) or "none"
    commit_ids,   \* Vec<ObjectId> parsed from commits
    requests,     \* HTTP requests sent so far, in order
    responses,    \* status codes received so far, in order
    rd,           \* StreamingPeekableIter over the response body
    rd_opened,    \* number of packet-line readers created so far
    dest,         \* bytes written to the sink (the packfile)
    tempfile,     \* per phase: "none", "exists" or "deleted"
    commit_data,  \* Phase A's map commit -> (blob id, committed_at)
    a_outcome,    \* what Phase A returned: nothing yet, Ok or its error
    blobs_ret,    \* Phase B's map blob id -> text, as returned
    blobs,        \* the local `mut blobs`, drained by the output iterator
    result,       \* what the operation returned to its caller
    branches,     \* fetch_branch_list: the map being filled
    log,          \* tracing events emitted (level, text)
    db,           \* the SQLite file: its user_version and its tables
    version,      \* check_and_migrate: the local `version`
    table,        \* index of the table a `for table in tables` loop is at
    store,        \* the committed rows of the opened store, per table
    wlock,        \* the connection holding SQLite's write lock ("none" if free)
    tx,           \* per task: its open transaction and the locals it keeps
    ppc,          \* per task: the position of its async fn
    input,        \* per task: the arguments it was called with
    outcome,      \* per task: what its operation returned
    contacted     \* the supplement sources contacted so far, in order

storeVars == <<store, wlock, tx, ppc, input, outcome, contacted>>

vars == <<op, commits, token, pc, phase, commit_ids, requests, responses, rd,
          rd_opened, dest, tempfile, commit_data, a_outcome, blobs_ret, blobs,
          result, branches, log, db, version, table, storeVars>>

(***************************************************************************)
(* Bounds of the model.                                                    *)
(***************************************************************************)
\* sections concatenated to form a response body in SpecDemux
MaxSections == 2

(***************************************************************************)
(* Bytes and texts.  A byte is 0..255; model texts are ASCII.              *)
(***************************************************************************)
\* "packfile"
TxtPackfile == <<112, 97, 99, 107, 102, 105, 108, 101>>
\* "acknowledgments"
TxtAck == <<97, 99, 107, 110, 111, 119, 108, 101, 100, 103, 109, 101, 110, 116, 115>>
\* "ERR"
TxtErr == <<69, 82, 82>>
LF == <<10>>
\* the white space str::trim removes (ASCII part of char::is_whitespace)
WhiteSpace == {9, 10, 11, 12, 13, 32}

\* std::str::from_utf8 on model bytes: ASCII is valid; a byte of 0x80 or more
\* occurs in the model only as a lone 0xFF or pack code, never as a valid
\* multi-byte sequence
IsUtf8(bytes) == \A i \in 1..Len(bytes) : bytes[i] < 128

RECURSIVE TrimStart(_)
TrimStart(s) ==
    IF s # <<>> /\ s[1] \in WhiteSpace THEN TrimStart(Tail(s)) ELSE s

RECURSIVE TrimEnd(_)
TrimEnd(s) ==
    IF s # <<>> /\ s[Len(s)] \in WhiteSpace
    THEN TrimEnd(SubSeq(s, 1, Len(s) - 1)) ELSE s

\* str::trim
Trim(s) == TrimEnd(TrimStart(s))

(***************************************************************************)
(* Packet lines (gix_packetline::PacketLineRef) as they sit in a body.     *)
(***************************************************************************)
Flush == [t |-> "flush"]
Delimiter == [t |-> "delim"]
\* a line whose 4-hex length prefix does not decode
BadLine == [t |-> "bad"]
Data(bytes) == [t |-> "data", bytes |-> bytes]

\* StreamingPeekableIter::new(body, delimiters, false)
NewReader(stream, delims) ==
    [stream |-> stream, pos |-> 0, delims |-> delims,
     is_done |-> FALSE, eof |-> FALSE]

NoReader == NewReader(<<>>, {})

\* StreamingPeekableIter::read_line.  None once a delimiter was hit (until
\* reset); at the end of the body read_exact fails with UnexpectedEof, which
\* is Some(Err(..)) and does not set is_done.
ReadLine(r) ==
    IF r.is_done THEN [rd |-> r, res |-> "None", line |-> Flush]
    ELSE IF r.pos >= Len(r.stream)
    THEN [rd |-> [r EXCEPT !.eof = TRUE], res |-> "IoErr", line |-> Flush]
    ELSE LET l == r.stream[r.pos + 1]
             r1 == [r EXCEPT !.pos = r.pos + 1]
         IN  IF l.t \in r.delims
             THEN [rd |-> [r1 EXCEPT !.is_done = TRUE], res |-> "None", line |-> l]
             ELSE IF l.t = "bad"
             THEN [rd |-> r1, res |-> "DecodeErr", line |-> l]
             ELSE [rd |-> r1, res |-> "Line", line |-> l]

\* StreamingPeekableIter::reset
Reset(r) == [r EXCEPT !.is_done = FALSE]

(***************************************************************************)
(* Results.                                                                *)
(***************************************************************************)
NoResult == [kind |-> "none"]
Ok(v) == [kind |-> "Ok", value |-> v]
\* anyhow::Error: its message, the bytes of upstream text it quotes, and the
\* HTTP status it quotes (0 when none)
Err(msg) == [kind |-> "Err", msg |-> msg, detail |-> <<>>, status |-> 0]
ErrStatus(msg, status) ==
    [kind |-> "Err", msg |-> msg, detail |-> <<>>, status |-> status]

(***************************************************************************)
(* Object ids.  An ObjectId is the sequence of its hex digits' values.     *)
(***************************************************************************)
\* gix_hash::Kind::Sha1.len_in_hex()
HexLen == 40

HexVal ==
    [c \in {"0", "1", "2", "3", "4", "5", "6", "7", "8", "9",
            "a", "b", "c", "d", "e", "f", "A", "B", "C", "D", "E", "F"} |->
        CASE c = "0" -> 0 [] c = "1" -> 1 [] c = "2" -> 2 [] c = "3" -> 3
          [] c = "4" -> 4 [] c = "5" -> 5 [] c = "6" -> 6 [] c = "7" -> 7
          [] c = "8" -> 8 [] c = "9" -> 9
          [] c \in {"a", "A"} -> 10 [] c \in {"b", "B"} -> 11
          [] c \in {"c", "C"} -> 12 [] c \in {"d", "D"} -> 13
          [] c \in {"e", "E"} -> 14 [] c \in {"f", "F"} -> 15]

HexChar == <<"0", "1", "2", "3", "4", "5", "6", "7", "8", "9",
             "a", "b", "c", "d", "e", "f">>

\* ObjectId::from_hex on a string given as its characters
FromHex(str) ==
    IF Len(str) = HexLen /\ \A i \in 1..Len(str) : str[i] \in DOMAIN HexVal
    THEN [ok |-> TRUE, id |-> [i \in 1..HexLen |-> HexVal[str[i]]]]
    ELSE [ok |-> FALSE, id |-> <<>>]

\* Display for oid: 40 lowercase hex digits
RECURSIVE ToHex(_)
ToHex(id) == IF id = <<>> THEN "" ELSE HexChar[Head(id) + 1] \o ToHex(Tail(id))

\* the id whose hex digits all have value n
Oid(n) == [i \in 1..HexLen |-> n]

(***************************************************************************)
(* Git objects and packs.  The bytes of a pack are modelled one code per   *)
(* pack element: the 12-byte header, then one code per entry; a code that  *)
(* names no entry of the table is a corrupt entry.  An object's id (the    *)
(* SHA-1 compute_hash gives) is carried with its content.                  *)
(***************************************************************************)
NoId == <<>>
NoTime == -1

Commit(id, tree, time) == [kind |-> "commit", id |-> id, tree |-> tree, time |-> time]
Tree(id, entries) == [kind |-> "tree", id |-> id, entries |-> entries]
Blob(id, bytes) == [kind |-> "blob", id |-> id, bytes |-> bytes]
Entry(name, mode, oid) == [filename |-> name, mode |-> mode, oid |-> oid]

IdA == Oid(10)
IdB == Oid(11)
IdC == Oid(12)
IdT1 == Oid(1)
IdT2 == Oid(2)
IdT3 == Oid(3)
IdB1 == Oid(5)
IdB2 == Oid(6)
IdB3 == Oid(7)
IdD == Oid(15)
IdT4 == Oid(4)
IdT5 == Oid(8)

\* "pkg", "foo"
TxtPkg == <<112, 107, 103>>
TxtFoo == <<102, 111, 111>>

Objects ==
    << Commit(IdA, IdT1, 100),
       Tree(IdT1, <<Entry(".SRCINFO", "blob", IdB1)>>),
       Commit(IdB, IdT2, 200),
       Tree(IdT2, <<Entry("PKGBUILD", "blob", IdB3),
                    Entry(".SRCINFO", "blob", IdB1)>>),
       Commit(IdC, IdT3, 300),
       Tree(IdT3, <<Entry(".SRCINFO", "tree", IdT1),
                    Entry(".SRCINFO", "exe", IdB2)>>),
       Commit(Oid(13), NoId, 400),
       Commit(Oid(14), IdT1, NoTime),
       Blob(IdB1, TxtPkg),
       Blob(IdB2, TxtFoo),
       Blob(IdB3, <<255>>),
       [kind |-> "refdelta", id |-> NoId],
       Commit(IdD, IdT1, 500),
       Tree(IdT4, <<Entry(".SRCINFO", "link", IdB1),
                    Entry(".SRCINFO", "commit", IdA),
                    Entry(".SRCINFO", "tree", IdT1),
                    Entry(".SRCINFO.bak", "blob", IdB3)>>),
       Tree(IdT5, <<Entry("SRCINFO", "blob", IdB3),
                    Entry(".SRCINFO", "exe", IdB2),
                    Entry(".SRCINFO", "blob", IdB1)>>) >>

PackCode(k) == 256 + k
PackHeader == PackCode(0)
\* the code of the table's k-th object
Obj(k) == PackCode(k)
CorruptEntry == PackCode(Len(Objects) + 1)

\* BytesToEntriesIter::new_from_header / data::File::at: the pack header
HasPackHeader(bytes) == bytes # <<>> /\ bytes[1] = PackHeader

IsEntry(code) == code \in { PackCode(k) : k \in 1..Len(Objects) }

\* .filter_map(|x| x.ok().map(|e| e.pack_offset)): the entries up to the
\* first one the iterator fails on; the failure itself is dropped and the
\* iterator yields nothing after it
RECURSIVE EntriesOffset(_)
EntriesOffset(codes) ==
    IF codes = <<>> \/ ~IsEntry(codes[1]) THEN <<>>
    ELSE <<Objects[codes[1] - PackCode(0)]>> \o EntriesOffset(Tail(codes))

\* gix_object::tree::EntryMode::is_no_tree, which also accepts symlinks and
\* gitlinks
IsNoTreeMode(mode) == mode # "tree"

\* gix_object::tree::EntryMode::is_blob: a regular or an executable file
IsBlobMode(mode) == mode \in {"blob", "exe"}

\* lines 317-330: the oid of the first entry named .SRCINFO with a blob mode
RECURSIVE SrcinfoBlob(_)
SrcinfoBlob(entries) ==
    IF entries = <<>> THEN NoId
    ELSE IF entries[1].filename = ".SRCINFO" /\ IsBlobMode(entries[1].mode)
    THEN entries[1].oid
    ELSE SrcinfoBlob(Tail(entries))

\* HashMap::insert / remove on a map held as a function
Insert(m, k, v) == [x \in DOMAIN m \cup {k} |-> IF x = k THEN v ELSE m[x]]
Remove(m, k) == [x \in DOMAIN m \ {k} |-> m[x]]
EmptyMap == [x \in {} |-> 0]

\* a database file as create_if_missing makes it: user_version 0, no table
NoDb == [user_version |-> 0, tables |-> EmptyMap]

\* no store is open and no task runs on one
StoreIdle ==
    /\ store = <<>>
    /\ wlock = "none"
    /\ tx = <<>>
    /\ ppc = <<>>
    /\ input = <<>>
    /\ outcome = <<>>
    /\ contacted = <<>>

\* a scan that leaves out a commit without a tree or a committer time
RECURSIVE ScanCommitsAndTreesSkippingShapeless(_, _, _)
ScanCommitsAndTreesSkippingShapeless(objs, c2t, t2b) ==
    IF objs = <<>> THEN [err |-> NoResult, c2t |-> c2t, t2b |-> t2b]
    ELSE LET o == objs[1] IN
         CASE o.kind = "refdelta" ->
                  [err |-> Err("delta base unresolved"), c2t |-> c2t, t2b |-> t2b]
           [] o.kind = "commit" ->
                  IF o.tree = NoId \/ o.time = NoTime
                  THEN ScanCommitsAndTreesSkippingShapeless(Tail(objs), c2t, t2b)
                  ELSE ScanCommitsAndTreesSkippingShapeless(Tail(objs),
                           Insert(c2t, o.id, <<o.tree, o.time>>), t2b)
           [] o.kind = "tree" ->
                  IF SrcinfoBlob(o.entries) # NoId
                  THEN ScanCommitsAndTreesSkippingShapeless(Tail(objs), c2t,
                           Insert(t2b, o.id, SrcinfoBlob(o.entries)))
                  ELSE ScanCommitsAndTreesSkippingShapeless(Tail(objs), c2t, t2b)
           [] OTHER -> ScanCommitsAndTreesSkippingShapeless(Tail(objs), c2t, t2b)

\* lines 276-342: decode every entry, filling commit_to_tree_and_timestamp
\* (c2t) and tree_to_srcinfo_blob_map (t2b); the first failure ends the fn
RECURSIVE ScanCommitsAndTrees(_, _, _)
ScanCommitsAndTrees(objs, c2t, t2b) ==
    IF objs = <<>> THEN [err |-> NoResult, c2t |-> c2t, t2b |-> t2b]
    ELSE LET o == objs[1] IN
         CASE o.kind = "refdelta" ->
                  [err |-> Err("delta base unresolved"), c2t |-> c2t, t2b |-> t2b]
           [] o.kind = "commit" ->
                  IF o.tree = NoId
                  THEN [err |-> [Err("Commit missing tree") EXCEPT !.detail = o.id],
                        c2t |-> c2t, t2b |-> t2b]
                  ELSE IF o.time = NoTime
                  THEN [err |-> [Err("Commit missing time") EXCEPT !.detail = o.id],
                        c2t |-> c2t, t2b |-> t2b]
                  ELSE ScanCommitsAndTrees(Tail(objs),
                                           Insert(c2t, o.id, <<o.tree, o.time>>), t2b)
           [] o.kind = "tree" ->
                  IF SrcinfoBlob(o.entries) # NoId
                  THEN ScanCommitsAndTrees(Tail(objs), c2t,
                                           Insert(t2b, o.id, SrcinfoBlob(o.entries)))
                  ELSE ScanCommitsAndTrees(Tail(objs), c2t, t2b)
           [] OTHER -> ScanCommitsAndTrees(Tail(objs), c2t, t2b)

\* lines 344-351: the join, over the commits in the map's iteration order;
\* a tree's blob is taken out of the tree map by the first commit that uses it
RECURSIVE JoinCommits(_, _, _)
JoinCommits(order, c2t, t2b) ==
    IF order = <<>> THEN EmptyMap
    ELSE LET c == order[1]
             tree == c2t[c][1]
         IN  IF tree \in DOMAIN t2b
             THEN Insert(JoinCommits(Tail(order), c2t, Remove(t2b, tree)),
                         c, <<t2b[tree], c2t[c][2]>>)
             ELSE JoinCommits(Tail(order), c2t, t2b)

\* the orders in which a hash map may hand out the keys S
Orders(S) ==
    { f \in [1..Cardinality(S) -> S] : \A i, j \in 1..Cardinality(S) : f[i] = f[j] => i = j }

\* map_commit_id_to_srcinfo_blob_id_and_timestamp on the sink's bytes; the
\* result for one iteration order of commit_to_tree_and_timestamp
CommitScan(bytes) == ScanCommitsAndTrees(EntriesOffset(Tail(bytes)), EmptyMap, EmptyMap)

MapCommits(bytes, order) ==
    IF ~HasPackHeader(bytes) THEN Err("pack header")
    ELSE LET sc == CommitScan(bytes)
         IN  IF sc.err.kind = "Err" THEN sc.err
             ELSE Ok(JoinCommits(order, sc.c2t, sc.t2b))

\* a lossy parser, which accepts every blob
ParseBlobLossy(bytes) == Ok(bytes)

\* String::from_utf8 as the content parser
ParseBlob(bytes) == IF IsUtf8(bytes) THEN Ok(bytes) ELSE Err("invalid utf-8")

\* lines 373-394: keep every blob the parser accepts
RECURSIVE ScanBlobs(_, _)
ScanBlobs(objs, m) ==
    IF objs = <<>> THEN Ok(m)
    ELSE LET o == objs[1] IN
         CASE o.kind = "refdelta" -> Err("delta base unresolved")
           [] o.kind = "blob" ->
                  IF ParseBlob(o.bytes).kind = "Ok"
                  THEN ScanBlobs(Tail(objs), Insert(m, o.id, ParseBlob(o.bytes).value))
                  ELSE ScanBlobs(Tail(objs), m)
           [] OTHER -> ScanBlobs(Tail(objs), m)

\* map_blob_id_to_content(path, String::from_utf8) on the sink's bytes
MapBlobs(bytes) ==
    IF ~HasPackHeader(bytes) THEN Err("pack header")
    ELSE ScanBlobs(EntriesOffset(Tail(bytes)), EmptyMap)

(***************************************************************************)
(* Temporary packfiles (async_tempfile::TempFile, owned by the phase fn).  *)
(***************************************************************************)
NoFiles == [ph \in {"A", "B"} |-> "none"]

\* TempFile::new(): the file of the running phase comes into existence
CreatePackfile(tf, ph) == [tf EXCEPT ![ph] = "exists"]

\* a drop that forgets the file when the phase fails
DropPackfileOnSuccessOnly(tf, ph, ok) ==
    IF ok /\ tf[ph] = "exists" THEN [tf EXCEPT ![ph] = "deleted"] ELSE tf

\* `packfile` is a local of the phase fn: it is dropped, and the file removed,
\* when the fn returns (Ok or through `?`) or when its future is dropped
DropPackfile(tf, ph, ok) ==
    IF tf[ph] = "exists" THEN [tf EXCEPT ![ph] = "deleted"] ELSE tf

(***************************************************************************)
(* How a phase fn and fetch_srcinfo_batch hand an error on.                *)
(***************************************************************************)
\* A bug that lets the batch go on after a failed Phase A
PropagateIgnoringErr(e) == "sendB"

\* `.await?` on Phase A (line 58): an error ends the batch
Propagate(e) == IF e.kind = "Err" THEN "done" ELSE "sendB"

\* The running phase fn returns Err(e) through `?`, and so does the batch.
\* With no batch running (the demultiplexer on its own) the error is the
\* function's result.
FailPhase(e) ==
    IF phase = "none"
    THEN /\ pc' = "ret"
         /\ result' = e
         /\ UNCHANGED <<tempfile, a_outcome>>
    ELSE /\ tempfile' = DropPackfile(tempfile, phase, FALSE)
         /\ a_outcome' = IF phase = "A" THEN e ELSE a_outcome
         /\ pc' = IF phase = "A" THEN Propagate(e) ELSE "done"
         /\ result' = IF phase = "A" /\ Propagate(e) # "done" THEN result ELSE e

(***************************************************************************)
(* read_packfile_from_fetch_response, one step per packet line read.       *)
(***************************************************************************)
\* what a sideband line adds to the sink: channel 1 payload only
BandOutputAllChannels(bytes) == Tail(bytes)

BandOutput(bytes) == IF bytes[1] = 1 THEN Tail(bytes) ELSE <<>>

\* lines 221-238: read a section header and classify the section
ReadSectionHeader ==
    /\ pc = "hdr"
    /\ LET r == ReadLine(rd)
       IN  /\ rd' = r.rd
           /\ CASE r.res = "None" ->
                     /\ FailPhase(Err("Missing section header"))
                     /\ UNCHANGED <<dest, log>>
                [] r.res = "IoErr" ->
                     /\ FailPhase(Err("UnexpectedEof"))
                     /\ UNCHANGED <<dest, log>>
                [] r.res = "DecodeErr" ->
                     /\ FailPhase(Err("packet line decode"))
                     /\ UNCHANGED <<dest, log>>
                [] OTHER ->
                     IF ~IsUtf8(r.line.bytes)
                     THEN /\ FailPhase(Err("Invalid section header"))
                          /\ UNCHANGED <<dest, log>>
                     ELSE /\ pc' = IF Trim(r.line.bytes) # TxtPackfile
                                   THEN "skip" ELSE "copy"
                          /\ UNCHANGED <<dest, log, result, tempfile, a_outcome>>
    /\ UNCHANGED <<storeVars, db, version, table, op, commits, token, branches, phase, commit_ids, requests, responses,
                   rd_opened, commit_data, blobs_ret, blobs>>

\* lines 233-237: drain the section; every Some(..), an error too, is skipped
SkipLine ==
    /\ pc = "skip"
    /\ LET r == ReadLine(rd)
       IN  IF r.res # "None"
           THEN /\ rd' = r.rd
                /\ pc' = "skip"
           ELSE /\ rd' = Reset(r.rd)
                /\ pc' = "hdr"
    /\ UNCHANGED <<storeVars, db, version, table, op, commits, token, branches, phase, commit_ids, requests, responses,
                   rd_opened, dest, tempfile, commit_data, a_outcome, blobs_ret,
                   blobs, result, log>>

\* lines 240-256: futures::io::copy over as_read_with_sidebands
CopyLine ==
    /\ pc = "copy"
    /\ LET r == ReadLine(rd)
       IN  /\ rd' = r.rd
           /\ CASE r.res = "None" ->
                     \* end of the section: copy returns, the fn returns Ok(())
                     /\ pc' = IF phase = "none" THEN "ret" ELSE "decode"
                     /\ result' = IF phase = "none" THEN Ok(<<>>) ELSE result
                     /\ UNCHANGED <<dest, log, tempfile, a_outcome>>
                [] r.res = "IoErr" ->
                     /\ FailPhase(Err("UnexpectedEof"))
                     /\ UNCHANGED <<dest, log>>
                [] r.res = "DecodeErr" ->
                     /\ FailPhase(Err("packet line decode"))
                     /\ UNCHANGED <<dest, log>>
                [] OTHER ->
                     LET b == r.line.bytes
                     IN  CASE b[1] = 1 ->
                               /\ dest' = dest \o BandOutput(b)
                               /\ UNCHANGED <<pc, log, result, tempfile, a_outcome>>
                          [] b[1] = 2 ->
                               /\ log' = Append(log, [level |-> "trace", text |-> Tail(b)])
                               /\ dest' = dest \o BandOutput(b)
                               /\ UNCHANGED <<pc, result, tempfile, a_outcome>>
                          [] b[1] = 3 ->
                               /\ log' = Append(log, [level |-> "error", text |-> Tail(b)])
                               /\ FailPhase(Err("interrupted by user"))
                               /\ UNCHANGED dest
                          [] OTHER ->
                               /\ FailPhase(Err("invalid side band"))
                               /\ UNCHANGED <<dest, log>>
    /\ UNCHANGED <<storeVars, db, version, table, op, commits, token, branches, phase, commit_ids, requests, responses,
                   rd_opened, commit_data, blobs_ret, blobs>>

(***************************************************************************)
(* SpecDemux: read_packfile_from_fetch_response on its own, over response  *)
(* bodies built from sections and cut at any line (a truncated stream).    *)
(***************************************************************************)
D1 == Data(<<1, 7, 8>>)
D2 == Data(<<1, 9>>)
DEmpty == Data(<<1>>)
Progress == Data(<<2, 80>>)
ErrorLine == Data(<<3>> \o TxtErr \o LF)
HdrPackfile == Data(TxtPackfile \o LF)
HdrAck == Data(TxtAck \o LF)
NotUtf8 == Data(<<255>>)
\* " packfile\n"
HdrPadded == Data(<<32>> \o TxtPackfile \o LF)

Segments ==
    { <<HdrAck, Flush>>,
      <<HdrAck, D1, Delimiter>>,
      <<HdrAck, BadLine, Flush>>,
      <<Flush>>,
      <<NotUtf8, Flush>>,
      <<HdrPackfile, D1, Progress, D2, Flush>>,
      <<HdrPackfile, DEmpty, D2, D1, Delimiter>>,
      <<HdrPackfile, D2, ErrorLine, D1, Flush>>,
      <<HdrPackfile, NotUtf8, Flush>>,
      <<HdrPadded, D1, Flush>>,
      <<HdrPackfile, Flush>> }

RECURSIVE Concat(_)
Concat(ss) == IF ss = <<>> THEN <<>> ELSE Head(ss) \o Concat(Tail(ss))

\* the first n lines of a body: the stream as a cut connection leaves it
Truncate(s, n) == [i \in 1..(IF n < Len(s) THEN n ELSE Len(s)) |-> s[i]]

DemuxStreams ==
    { Truncate(Concat(ss), n) :
        ss \in UNION { [1..k -> Segments] : k \in 0..MaxSections },
        n \in 0..(5 * MaxSections) }

FetchDelims == {"flush", "delim"}

InitDemux ==
    /\ op = "demux"
    /\ commits = <<>>
    /\ token = "none"
    /\ pc = "hdr"
    /\ phase = "none"
    /\ commit_ids = <<>>
    /\ requests = <<>>
    /\ responses = <<>>
    /\ \E s \in DemuxStreams : rd = NewReader(s, FetchDelims)
    /\ rd_opened = 1
    /\ dest = <<>>
    /\ tempfile = NoFiles
    /\ commit_data = <<>>
    /\ a_outcome = NoResult
    /\ blobs_ret = <<>>
    /\ blobs = <<>>
    /\ result = NoResult
    /\ branches = EmptyMap
    /\ log = <<>>
    /\ db = NoDb
    /\ version = 0
    /\ table = 1
    /\ StoreIdle

NextDemux == ReadSectionHeader \/ SkipLine \/ CopyLine

SpecDemux == InitDemux /\ [][NextDemux]_vars

(***************************************************************************)
(* HTTP requests and the fetch request body.                               *)
(***************************************************************************)
AUR_GIT_UPLOAD_PACK_GET_URL ==
    "https://github.com/archlinux/aur.git/info/refs?service=git-upload-pack"
AUR_GIT_UPLOAD_PACK_POST_URL == "https://github.com/archlinux/aur.git/git-upload-pack"

\* AurFetcher::user_agent
UserAgent == "AUR-Mirror-Meta/" \o "CARGO_PKG_VERSION"

\* encode::text_to_write: the 4-hex length counts itself, the text and the LF
TextPkt(txt) == [len |-> 4 + Len(txt) + 1, payload |-> txt \o "\n"]
\* encode::delim_to_write ("0001") and encode::flush_to_write ("0000")
DelimPkt == [len |-> 1, payload |-> ""]
FlushPkt == [len |-> 0, payload |-> ""]

\* the `for` loops of lines 89-92 and 139-142
RECURSIVE WantLines(_)
WantLines(ids) ==
    IF ids = <<>> THEN <<>>
    ELSE <<TextPkt("want " \o ToHex(Head(ids)))>> \o WantLines(Tail(ids))

\* a Phase B body that still asks for a shallow, blob-less pack
FetchBodyBWithFilter(ids) ==
    <<TextPkt("command=fetch"), TextPkt("agent=git/aur-mirror"), DelimPkt>>
    \o WantLines(ids)
    \o <<TextPkt("ofs-delta"), TextPkt("deepen 1"), TextPkt("filter blob:none"),
         TextPkt("no-progress"), TextPkt("done"), FlushPkt>>

\* lines 84-100
FetchBodyA(ids) ==
    <<TextPkt("command=fetch"), TextPkt("agent=git/aur-mirror"), DelimPkt>>
    \o WantLines(ids)
    \o <<TextPkt("ofs-delta"), TextPkt("deepen 1"), TextPkt("filter blob:none"),
         TextPkt("no-progress"), TextPkt("done"), FlushPkt>>

\* lines 134-148
FetchBodyB(ids) ==
    <<TextPkt("command=fetch"), TextPkt("agent=git/aur-mirror"), DelimPkt>>
    \o WantLines(ids)
    \o <<TextPkt("ofs-delta"), TextPkt("no-progress"), TextPkt("done"), FlushPkt>>

\* lines 76-83 and 126-133: the POST of either phase
FetchRequest(tok, body) ==
    [method |-> "POST", url |-> AUR_GIT_UPLOAD_PACK_POST_URL,
     headers |-> {<<"Git-Protocol", "version=2">>, <<"User-Agent", UserAgent>>},
     basic_auth |-> tok, body |-> body]

\* reqwest::StatusCode::is_success, misread as "not a client or server error"
IsSuccessBelow400(status) == status < 400

\* reqwest::StatusCode::is_success
IsSuccess(status) == 200 <= status /\ status < 300

(***************************************************************************)
(* The upstream: what it may answer.  Any status; with a 2xx, one of a few *)
(* bodies framing a pack (or failing to).                                  *)
(***************************************************************************)
Statuses == {200, 302, 404}

\* a pack sent as one packfile section, its bytes split over two data lines
Framed(pack) ==
    <<HdrPackfile>>
    \o (IF pack = <<>> THEN <<>>
        ELSE <<Data(<<1, pack[1]>>), Progress, Data(<<1>> \o Tail(pack))>>)
    \o <<Flush>>

PacksA ==
    { <<PackHeader, Obj(1), Obj(2), Obj(3), Obj(4)>>,
      <<PackHeader, Obj(5), Obj(1), Obj(6), Obj(2)>>,
      <<PackHeader, Obj(1), Obj(2), Obj(7)>>,
      <<PackHeader, Obj(1), CorruptEntry, Obj(2)>>,
      <<>>,
      <<PackHeader, Obj(1), Obj(13), Obj(2)>>,
      <<PackHeader, Obj(5), Obj(8), Obj(6), Obj(2)>>,
      <<PackHeader, Obj(6), Obj(14), Obj(1), Obj(15)>> }

PacksB ==
    { <<PackHeader, Obj(9), Obj(10)>>,
      <<PackHeader, Obj(10)>>,
      <<PackHeader, Obj(11), Obj(9)>>,
      <<PackHeader, Obj(9), Obj(12)>> }

BrokenBodies ==
    { <<HdrAck>>,
      <<HdrPackfile, Data(<<1, PackHeader>>), ErrorLine, Flush>> }

Bodies(ph) ==
    { Framed(p) : p \in (IF ph = "A" THEN PacksA ELSE PacksB) }
    \cup { <<HdrAck, D1, Delimiter>> \o Framed(p) :
             p \in (IF ph = "A" THEN {<<PackHeader, Obj(1), Obj(2)>>}
                                ELSE {<<PackHeader, Obj(9)>>}) }
    \cup BrokenBodies

(***************************************************************************)
(* fetch_srcinfo_batch.                                                    *)
(***************************************************************************)
None == [some |-> FALSE, srcinfo_text |-> <<>>, committed_at |-> 0]
Some(text, time) == [some |-> TRUE, srcinfo_text |-> text, committed_at |-> time]

\* an output iterator built with filter_map: absent commits leave no entry
RECURSIVE EmitRecordsSkippingAbsent(_, _, _)
EmitRecordsSkippingAbsent(ids, cd, bl) ==
    IF ids = <<>> THEN [records |-> <<>>, blobs |-> bl]
    ELSE LET c == Head(ids) IN
         IF c \in DOMAIN cd
         THEN LET blob_id == cd[c][1]
                  srcinfo == IF blob_id \in DOMAIN bl THEN bl[blob_id] ELSE <<>>
                  rest == EmitRecordsSkippingAbsent(Tail(ids), cd, Remove(bl, blob_id))
              IN  [records |-> <<Some(srcinfo, cd[c][2])>> \o rest.records,
                   blobs |-> rest.blobs]
         ELSE EmitRecordsSkippingAbsent(Tail(ids), cd, bl)

\* an output iterator that reports a commit whose blob is missing as absent
RECURSIVE EmitRecordsAbsentWithoutBlob(_, _, _)
EmitRecordsAbsentWithoutBlob(ids, cd, bl) ==
    IF ids = <<>> THEN [records |-> <<>>, blobs |-> bl]
    ELSE LET c == Head(ids) IN
         IF c \in DOMAIN cd /\ cd[c][1] \in DOMAIN bl
         THEN LET blob_id == cd[c][1]
                  rest == EmitRecordsAbsentWithoutBlob(Tail(ids), cd, Remove(bl, blob_id))
              IN  [records |-> <<Some(bl[blob_id], cd[c][2])>> \o rest.records,
                   blobs |-> rest.blobs]
         ELSE LET rest == EmitRecordsAbsentWithoutBlob(Tail(ids), cd, bl)
              IN  [records |-> <<None>> \o rest.records, blobs |-> rest.blobs]

\* lines 61-69, the iterator run to its end: the records, and what is left
\* of `blobs`
RECURSIVE EmitRecords(_, _, _)
EmitRecords(ids, cd, bl) ==
    IF ids = <<>> THEN [records |-> <<>>, blobs |-> bl]
    ELSE LET c == Head(ids) IN
         IF c \in DOMAIN cd
         THEN LET blob_id == cd[c][1]
                  srcinfo == IF blob_id \in DOMAIN bl THEN bl[blob_id] ELSE <<>>
                  rest == EmitRecords(Tail(ids), cd, Remove(bl, blob_id))
              IN  [records |-> <<Some(srcinfo, cd[c][2])>> \o rest.records,
                   blobs |-> rest.blobs]
         ELSE LET rest == EmitRecords(Tail(ids), cd, bl)
              IN  [records |-> <<None>> \o rest.records, blobs |-> rest.blobs]

\* lines 53-55: every input through ObjectId::from_hex(..).unwrap()
ParseInputs ==
    /\ op = "batch"
    /\ pc = "parse"
    /\ IF \E i \in 1..Len(commits) : ~FromHex(commits[i]).ok
       THEN /\ pc' = "panicked"
            /\ result' = [kind |-> "Panic"]
            /\ UNCHANGED commit_ids
       ELSE /\ commit_ids' = [i \in 1..Len(commits) |-> FromHex(commits[i]).id]
            /\ pc' = "sendA"
            /\ UNCHANGED result
    /\ UNCHANGED <<storeVars, db, version, table, op, commits, token, branches, phase, requests, responses, rd, rd_opened,
                   dest, tempfile, commit_data, a_outcome, blobs_ret, blobs, log>>

\* lines 76-101: Phase A's request is built and sent
SendFetchA ==
    /\ op = "batch"
    /\ pc = "sendA"
    /\ phase' = "A"
    /\ requests' = Append(requests, FetchRequest(token, FetchBodyA(commit_ids)))
    /\ pc' = "wait"
    /\ UNCHANGED <<storeVars, db, version, table, op, commits, token, branches, commit_ids, responses, rd, rd_opened, dest,
                   tempfile, commit_data, a_outcome, blobs_ret, blobs, result, log>>

\* lines 59-60 and 126-149: the blob ids, in the map's iteration order, and
\* Phase B's request
SendFetchB ==
    /\ op = "batch"
    /\ pc = "sendB"
    /\ phase' = "B"
    /\ \E order \in Orders(DOMAIN commit_data) :
         LET blob_ids == [i \in 1..Len(order) |-> commit_data[order[i]][1]]
         IN  requests' = Append(requests, FetchRequest(token, FetchBodyB(blob_ids)))
    /\ pc' = "wait"
    /\ UNCHANGED <<storeVars, db, version, table, op, commits, token, branches, commit_ids, responses, rd, rd_opened, dest,
                   tempfile, commit_data, a_outcome, blobs_ret, blobs, result, log>>

\* lines 101-113 and 149-161: send() fails, or a status arrives; only a 2xx
\* body is wrapped in a packet-line reader
RecvFetchResponse ==
    /\ op = "batch"
    /\ pc = "wait"
    /\ \/ /\ FailPhase(Err("error sending request"))
          /\ UNCHANGED <<responses, rd, rd_opened>>
       \/ \E status \in Statuses :
            /\ responses' = Append(responses, status)
            /\ IF ~IsSuccess(status)
               THEN /\ FailPhase(ErrStatus("Failed to fetch commits", status))
                    /\ UNCHANGED <<rd, rd_opened>>
               ELSE /\ \E body \in Bodies(phase) : rd' = NewReader(body, FetchDelims)
                    /\ rd_opened' = rd_opened + 1
                    /\ pc' = "tmp"
                    /\ UNCHANGED <<result, tempfile, a_outcome>>
    /\ UNCHANGED <<storeVars, db, version, table, op, commits, token, branches, phase, commit_ids, requests, dest,
                   commit_data, blobs_ret, blobs, log>>

\* lines 115 and 163: TempFile::new().await?
CreateTempFile ==
    /\ op = "batch"
    /\ pc = "tmp"
    /\ \/ /\ tempfile' = CreatePackfile(tempfile, phase)
          /\ dest' = <<>>
          /\ pc' = "hdr"
          /\ UNCHANGED <<result, a_outcome>>
       \/ /\ FailPhase(Err("temporary file"))
          /\ UNCHANGED dest
    /\ UNCHANGED <<storeVars, db, version, table, op, commits, token, branches, phase, commit_ids, requests, responses, rd,
                   rd_opened, commit_data, blobs_ret, blobs, log>>

\* lines 117-119: Phase A decodes its packfile and returns
DecodeCommits ==
    /\ op = "batch"
    /\ pc = "decode"
    /\ phase = "A"
    /\ \E order \in Orders(IF HasPackHeader(dest) THEN DOMAIN CommitScan(dest).c2t ELSE {}) :
         LET r == MapCommits(dest, order)
         IN  IF r.kind = "Err"
             THEN /\ FailPhase(r)
                  /\ UNCHANGED commit_data
             ELSE /\ commit_data' = r.value
                  /\ tempfile' = DropPackfile(tempfile, phase, TRUE)
                  /\ a_outcome' = Ok(<<>>)
                  /\ pc' = Propagate(Ok(<<>>))
                  /\ UNCHANGED result
    /\ UNCHANGED <<storeVars, db, version, table, op, commits, token, branches, phase, commit_ids, requests, responses, rd,
                   rd_opened, dest, blobs_ret, blobs, log>>

\* lines 165-167: Phase B decodes its packfile and returns
DecodeBlobs ==
    /\ op = "batch"
    /\ pc = "decode"
    /\ phase = "B"
    /\ LET r == MapBlobs(dest)
       IN  IF r.kind = "Err"
           THEN /\ FailPhase(r)
                /\ UNCHANGED <<blobs_ret, blobs>>
           ELSE /\ blobs_ret' = r.value
                /\ blobs' = r.value
                /\ tempfile' = DropPackfile(tempfile, phase, TRUE)
                /\ pc' = "emit"
                /\ UNCHANGED <<result, a_outcome>>
    /\ UNCHANGED <<storeVars, db, version, table, op, commits, token, branches, phase, commit_ids, requests, responses, rd,
                   rd_opened, dest, commit_data, log>>

\* lines 61-69: the batch returns Ok(iterator), and the caller runs it
EmitBatch ==
    /\ op = "batch"
    /\ pc = "emit"
    /\ LET e == EmitRecords(commit_ids, commit_data, blobs)
       IN  /\ result' = Ok(e.records)
           /\ blobs' = e.blobs
    /\ pc' = "done"
    /\ UNCHANGED <<storeVars, db, version, table, op, commits, token, branches, phase, commit_ids, requests, responses, rd,
                   rd_opened, dest, tempfile, commit_data, a_outcome, blobs_ret, log>>

\* the points at which the batch's future is suspended on an .await
Suspended == pc \in {"wait", "tmp", "hdr", "skip", "copy"}

\* The caller drops the future of fetch_srcinfo_batch while it is suspended:
\* the locals of the running phase fn are dropped with it
Cancel ==
    /\ op = "batch"
    /\ Suspended
    /\ pc' = "cancelled"
    /\ tempfile' = DropPackfile(tempfile, phase, FALSE)
    /\ UNCHANGED <<storeVars, db, version, table, op, commits, token, branches, phase, commit_ids, requests, responses, rd,
                   rd_opened, dest, commit_data, a_outcome, blobs_ret, blobs,
                   result, log>>

(***************************************************************************)
(* fetch_branch_list.                                                      *)
(***************************************************************************)
\* " refs/heads/"
TxtRefsHeads == <<32, 114, 101, 102, 115, 47, 104, 101, 97, 100, 115, 47>>
\* "main", "foo", "bar"
TxtMain == <<109, 97, 105, 110>>
TxtBar == <<98, 97, 114>>
\* "# service=git-upload-pack"
TxtService == <<35, 32, 115, 101, 114, 118, 105, 99, 101>>

\* the ASCII text of an id: digits '0'..'9' and 'a'..'f'
HexBytes(id) == [i \in 1..Len(id) |-> IF id[i] < 10 THEN 48 + id[i] ELSE 87 + id[i]]

RefLine(id_text, name) == Data(id_text \o TxtRefsHeads \o name \o LF)

\* str::split_once: the text before and after the first occurrence of pat
SplitOnce(str, pat) ==
    LET at == { i \in 1..(Len(str) - Len(pat) + 1) :
                  SubSeq(str, i, i + Len(pat) - 1) = pat }
    IN  IF at = {} THEN [found |-> FALSE, before |-> <<>>, after |-> <<>>]
        ELSE LET i == CHOOSE k \in at : \A j \in at : k <= j
             IN  [found |-> TRUE, before |-> SubSeq(str, 1, i - 1),
                  after |-> SubSeq(str, i + Len(pat), Len(str))]

RefBodies ==
    { <<Data(TxtService \o LF), Flush,
        RefLine(HexBytes(IdA), TxtMain), RefLine(HexBytes(IdB), TxtFoo), Flush>>,
      <<Data(TxtService \o LF), RefLine(HexBytes(IdC), TxtPkg), Flush,
        RefLine(HexBytes(IdA), TxtFoo), Flush, RefLine(HexBytes(IdB), TxtBar), Flush>>,
      <<Data(TxtService \o LF), Flush,
        RefLine(<<97, 98, 99>>, TxtFoo), NotUtf8, Delimiter,
        RefLine(HexBytes(IdB), TxtFoo), Flush>>,
      <<Data(TxtService \o LF), Flush, RefLine(HexBytes(IdA), TxtFoo)>>,
      <<Data(TxtService \o LF), Flush, BadLine, Flush>>,
      <<Data(TxtService \o LF)>>,
      <<Data(TxtService \o LF), Flush, RefLine(<<97, 98, 99>>, TxtBar), Flush>> }

\* lines 171-175: the GET is built and sent
SendRefsRequest ==
    /\ op = "branch_list"
    /\ pc = "sendRefs"
    /\ requests' = Append(requests,
           [method |-> "GET", url |-> AUR_GIT_UPLOAD_PACK_GET_URL, headers |-> {},
            basic_auth |-> token, body |-> <<>>])
    /\ pc' = "waitRefs"
    /\ UNCHANGED <<storeVars, db, version, table, op, commits, token, branches, phase, commit_ids, responses, rd,
                   rd_opened, dest, tempfile, commit_data, a_outcome, blobs_ret,
                   blobs, result, log>>

\* lines 175-187: send() fails, or a status arrives; only a 2xx body is read
RecvRefsResponse ==
    /\ op = "branch_list"
    /\ pc = "waitRefs"
    /\ \/ /\ result' = Err("error sending request")
          /\ pc' = "done"
          /\ UNCHANGED <<responses, rd, rd_opened>>
       \/ \E status \in Statuses :
            /\ responses' = Append(responses, status)
            /\ IF ~IsSuccess(status)
               THEN /\ result' = ErrStatus("Failed to fetch refs", status)
                    /\ pc' = "done"
                    /\ UNCHANGED <<rd, rd_opened>>
               ELSE /\ \E body \in RefBodies : rd' = NewReader(body, {"flush"})
                    /\ rd_opened' = rd_opened + 1
                    /\ pc' = "refsSkip"
                    /\ UNCHANGED result
    /\ UNCHANGED <<storeVars, db, version, table, op, commits, token, branches, phase, commit_ids, requests, dest,
                   tempfile, commit_data, a_outcome, blobs_ret, blobs, log>>

\* lines 188-191: every line up to the first flush is read and dropped
SkipFirstPart ==
    /\ op = "branch_list"
    /\ pc = "refsSkip"
    /\ LET r == ReadLine(rd)
       IN  IF r.res # "None"
           THEN /\ rd' = r.rd
                /\ pc' = "refsSkip"
           ELSE /\ rd' = Reset(r.rd)
                /\ pc' = "refsRead"
    /\ UNCHANGED <<storeVars, db, version, table, op, commits, token, branches, phase, commit_ids, requests,
                   responses, rd_opened, dest, tempfile, commit_data, a_outcome,
                   blobs_ret, blobs, result, log>>

\* lines 193-208: one turn of the loop over the ref lines
ReadRefLine ==
    /\ op = "branch_list"
    /\ pc = "refsRead"
    /\ LET r == ReadLine(rd)
       IN  /\ rd' = r.rd
           /\ CASE r.res = "None" ->
                     /\ result' = Ok(branches)
                     /\ pc' = "done"
                     /\ UNCHANGED branches
                [] r.res = "IoErr" ->
                     /\ result' = Err("UnexpectedEof")
                     /\ pc' = "done"
                     /\ UNCHANGED branches
                [] r.res = "DecodeErr" ->
                     /\ result' = Err("packet line decode")
                     /\ pc' = "done"
                     /\ UNCHANGED branches
                [] OTHER ->
                     /\ UNCHANGED <<pc, result>>
                     /\ IF r.line.t # "data" \/ ~IsUtf8(r.line.bytes)
                        THEN UNCHANGED branches
                        ELSE LET sp == SplitOnce(r.line.bytes, TxtRefsHeads)
                                 branch_name == TrimEnd(sp.after)
                             IN  IF sp.found /\ branch_name # TxtMain
                                 THEN branches' = Insert(branches, branch_name, sp.before)
                                 ELSE UNCHANGED branches
    /\ UNCHANGED <<storeVars, db, version, table, op, commits, token, phase, commit_ids, requests, responses,
                   rd_opened, dest, tempfile, commit_data, a_outcome, blobs_ret,
                   blobs, log>>

(***************************************************************************)
(* Spec: one fetch_srcinfo_batch call against an arbitrary upstream.       *)
(***************************************************************************)
\* commit ids in one input list
MaxCommits == 2

\* a string of HexLen (or n) copies of one character
Str(ch, n) == [i \in 1..n |-> ch]

InputStrings ==
    { Str("a", HexLen), Str("A", HexLen), Str("b", HexLen), Str("c", HexLen),
      Str("g", HexLen), Str("a", HexLen - 1) }

InputLists == UNION { [1..k -> InputStrings] : k \in 0..MaxCommits }

NoToken == "none"

Init ==
    /\ \/ /\ op = "batch"
          /\ commits \in InputLists
          /\ pc = "parse"
       \/ /\ op = "branch_list"
          /\ commits = <<>>
          /\ pc = "sendRefs"
    /\ token \in {NoToken, "ghp_token"}
    /\ phase = "none"
    /\ commit_ids = <<>>
    /\ requests = <<>>
    /\ responses = <<>>
    /\ rd = NoReader
    /\ rd_opened = 0
    /\ dest = <<>>
    /\ tempfile = NoFiles
    /\ commit_data = EmptyMap
    /\ a_outcome = NoResult
    /\ blobs_ret = EmptyMap
    /\ blobs = EmptyMap
    /\ result = NoResult
    /\ branches = EmptyMap
    /\ log = <<>>
    /\ db = NoDb
    /\ version = 0
    /\ table = 1
    /\ StoreIdle

Next ==
    \/ ParseInputs
    \/ SendFetchA
    \/ RecvFetchResponse
    \/ CreateTempFile
    \/ ReadSectionHeader
    \/ SkipLine
    \/ CopyLine
    \/ DecodeCommits
    \/ SendFetchB
    \/ DecodeBlobs
    \/ EmitBatch
    \/ Cancel
    \/ SendRefsRequest
    \/ RecvRefsResponse
    \/ SkipFirstPart
    \/ ReadRefLine

Spec == Init /\ [][Next]_vars

(***************************************************************************)
(* DatabaseOps::new (src/src/database.rs): open the file, check_and_migrate*)
(* and init_index_tables, one step per statement sent to SQLite.           *)
(***************************************************************************)
CURRENT_DB_VERSION == 2

\* the tables check_and_migrate drops and init_index_tables creates, in the
\* order of both lists
TableNames ==
    << "branch_commits", "pkg_info", "pkg_depends", "pkg_make_depends",
       "pkg_opt_depends", "pkg_check_depends", "pkg_provides", "pkg_conflicts",
       "pkg_replaces", "pkg_groups", "pkg_supplement" >>

\* a table is the set of its rows; tables holding rows of an earlier program
WithRows(names) == [n \in names |-> {"rows"}]

\* DROP TABLE IF EXISTS / CREATE TABLE IF NOT EXISTS
DropTableIfExists(tables, name) == [n \in DOMAIN tables \ {name} |-> tables[n]]
CreateTableIfNotExists(tables, name) ==
    [n \in DOMAIN tables \cup {name} |-> IF n \in DOMAIN tables THEN tables[n] ELSE {}]

\* the files new() may be given: any user_version, with no table, with the
\* tables of the first version, or with all of them
PriorVersions == {0, 1, 2, 3}
PriorTables ==
    { EmptyMap,
      WithRows({"branch_commits", "pkg_info", "pkg_depends"}),
      WithRows({ TableNames[i] : i \in 1..Len(TableNames) }) }

\* a check_and_migrate that also clears a store of the current version
AfterVersionClearingCurrent(v) ==
    IF v <= CURRENT_DB_VERSION
    THEN (IF v > 0 THEN "drop" ELSE "setver")
    ELSE "init"

\* lines 58-88: where check_and_migrate goes once `version` is settled
AfterVersion(v) ==
    IF v < CURRENT_DB_VERSION
    THEN (IF v > 0 THEN "drop" ELSE "setver")
    ELSE "init"

\* a statement fails (sqlx::Error) and `?` returns it from new()
FailOpen(msg) ==
    /\ result' = Err(msg)
    /\ pc' = "done"

fetcherVars ==
    <<commits, token, phase, commit_ids, requests, responses, rd, rd_opened,
      dest, tempfile, commit_data, a_outcome, blobs_ret, blobs, branches, log>>

\* lines 20-25: SqlitePool::connect_with(.. create_if_missing(true))
Connect ==
    /\ op = "open"
    /\ pc = "connect"
    /\ \/ FailOpen("connect")
       \/ pc' = "pragma" /\ UNCHANGED result
    /\ UNCHANGED <<db, version, table, op, fetcherVars, storeVars>>

\* lines 33-36: PRAGMA user_version
ReadUserVersion ==
    /\ op = "open"
    /\ pc = "pragma"
    /\ \/ FailOpen("PRAGMA user_version") /\ UNCHANGED version
       \/ /\ version' = db.user_version
          /\ pc' = IF db.user_version = 0 THEN "probe"
                   ELSE AfterVersion(db.user_version)
          /\ UNCHANGED result
    /\ UNCHANGED <<db, table, op, fetcherVars, storeVars>>

\* lines 38-56: with user_version 0, a pkg_info table marks the first version
ProbeLegacyTable ==
    /\ op = "open"
    /\ pc = "probe"
    /\ \/ FailOpen("sqlite_master") /\ UNCHANGED version
       \/ LET table_exists == "pkg_info" \in DOMAIN db.tables
              v == IF table_exists THEN 1 ELSE 0
          IN  /\ version' = v
              /\ pc' = AfterVersion(v)
              /\ UNCHANGED result
    /\ UNCHANGED <<db, table, op, fetcherVars, storeVars>>

\* lines 65-83: one turn of the loop dropping the tables
DropTable ==
    /\ op = "open"
    /\ pc = "drop"
    /\ \/ FailOpen("DROP TABLE") /\ UNCHANGED <<db, table>>
       \/ /\ db' = [db EXCEPT !.tables = DropTableIfExists(@, TableNames[table])]
          /\ table' = IF table = Len(TableNames) THEN 1 ELSE table + 1
          /\ pc' = IF table = Len(TableNames) THEN "setver" ELSE "drop"
          /\ UNCHANGED result
    /\ UNCHANGED <<version, op, fetcherVars, storeVars>>

\* lines 84-88: PRAGMA user_version = CURRENT_DB_VERSION
SetUserVersion ==
    /\ op = "open"
    /\ pc = "setver"
    /\ \/ FailOpen("PRAGMA user_version =") /\ UNCHANGED db
       \/ /\ db' = [db EXCEPT !.user_version = CURRENT_DB_VERSION]
          /\ pc' = "init"
          /\ UNCHANGED result
    /\ UNCHANGED <<version, table, op, fetcherVars, storeVars>>

\* lines 94-175: one turn of the loop creating the tables
CreateTable ==
    /\ op = "open"
    /\ pc = "init"
    /\ \/ FailOpen("CREATE TABLE") /\ UNCHANGED <<db, table>>
       \/ /\ db' = [db EXCEPT !.tables = CreateTableIfNotExists(@, TableNames[table])]
          /\ table' = IF table = Len(TableNames) THEN 1 ELSE table + 1
          /\ pc' = IF table = Len(TableNames) THEN "index" ELSE "init"
          /\ UNCHANGED result
    /\ UNCHANGED <<version, op, fetcherVars, storeVars>>

\* lines 177-201 and 28: the indexes are created and new() returns Ok
CreateIndexes ==
    /\ op = "open"
    /\ pc = "index"
    /\ \/ FailOpen("CREATE INDEX")
       \/ result' = Ok(<<>>) /\ pc' = "done"
    /\ UNCHANGED <<db, version, table, op, fetcherVars, storeVars>>

\* lines 19-30: new() is called again on the file a failed open left behind
\* (every statement of the failed open that had run stays applied: none of
\* them is inside a transaction)
Reopen ==
    /\ op = "open"
    /\ pc = "done"
    /\ result.kind = "Err"
    /\ pc' = "connect"
    /\ result' = NoResult
    /\ version' = 0
    /\ table' = 1
    /\ UNCHANGED <<db, op, fetcherVars, storeVars>>

InitDb ==
    /\ op = "open"
    /\ pc = "connect"
    /\ \E v \in PriorVersions, t \in PriorTables : db = [user_version |-> v, tables |-> t]
    /\ version = 0
    /\ table = 1
    /\ commits = <<>>
    /\ token = NoToken
    /\ phase = "none"
    /\ commit_ids = <<>>
    /\ requests = <<>>
    /\ responses = <<>>
    /\ rd = NoReader
    /\ rd_opened = 0
    /\ dest = <<>>
    /\ tempfile = NoFiles
    /\ commit_data = EmptyMap
    /\ a_outcome = NoResult
    /\ blobs_ret = EmptyMap
    /\ blobs = EmptyMap
    /\ result = NoResult
    /\ branches = EmptyMap
    /\ log = <<>>
    /\ StoreIdle

NextDb ==
    \/ Connect
    \/ ReadUserVersion
    \/ ProbeLegacyTable
    \/ DropTable
    \/ SetUserVersion
    \/ CreateTable
    \/ CreateIndexes
    \/ Reopen

SpecDb == InitDb /\ [][NextDb]_vars

(***************************************************************************)
(* Claims about read_packfile_from_fetch_response (SpecDemux).             *)
(***************************************************************************)
IsText(l) == l.t = "data" /\ IsUtf8(l.bytes)
\* a section header naming the packfile section / any other section; the
\* header text is taken without its surrounding white space (the trailing LF)
IsPackfileHeader(l) == IsText(l) /\ Trim(l.bytes) = TxtPackfile
IsOtherHeader(l) == IsText(l) /\ Trim(l.bytes) # TxtPackfile
IsTerminator(l) == l.t \in {"flush", "delim"}
IsBand(l, ch) == l.t = "data" /\ l.bytes[1] = ch

\* the channel-1 payloads of a run of sideband lines, concatenated in order
RECURSIVE Channel1(_)
Channel1(ls) ==
    IF ls = <<>> THEN <<>>
    ELSE (IF IsBand(ls[1], 1) THEN Tail(ls[1].bytes) ELSE <<>>)
         \o Channel1(Tail(ls))

Least(S) == CHOOSE k \in S : \A j \in S : k <= j

\* A response made of zero or more sections with a header other than
\* `packfile` (header, data lines, flush or delimiter) followed by a packfile
\* section (header, channel-1 and channel-2 lines, flush): whether the body
\* has that shape, and the bytes its packfile section carries on channel 1.
RECURSIVE ExpectedSink(_)
ExpectedSink(s) ==
    IF s = <<>> THEN [ok |-> FALSE, sink |-> <<>>]
    ELSE IF IsPackfileHeader(s[1])
    THEN LET ends == { k \in 2..Len(s) :
                         /\ s[k] = Flush
                         /\ \A j \in 2..(k - 1) : IsBand(s[j], 1) \/ IsBand(s[j], 2) }
         IN  IF ends = {} THEN [ok |-> FALSE, sink |-> <<>>]
             ELSE [ok |-> TRUE, sink |-> Channel1(SubSeq(s, 2, Least(ends) - 1))]
    ELSE IF IsOtherHeader(s[1])
    THEN LET ends == { k \in 2..Len(s) :
                         /\ IsTerminator(s[k])
                         /\ \A j \in 2..(k - 1) : s[j].t = "data" }
         IN  IF ends = {} THEN [ok |-> FALSE, sink |-> <<>>]
             ELSE ExpectedSink(SubSeq(s, Least(ends) + 1, Len(s)))
    ELSE [ok |-> FALSE, sink |-> <<>>]

IsPrefix(a, b) == Len(a) <= Len(b) /\ a = SubSeq(b, 1, Len(a))

\* C5: for a response of zero or more non-packfile sections followed by a
\* packfile section, the sink only ever holds a prefix of the channel-1
\* payloads of the packfile section (no byte of a skipped section or of a
\* progress line), and the function returns Ok with the sink holding exactly
\* all of them, in order.
C5_SinkIsChannel1OfPackfileSection ==
    ExpectedSink(rd.stream).ok =>
        /\ IsPrefix(dest, ExpectedSink(rd.stream).sink)
        /\ result.kind # "Err"
        /\ pc = "ret" => /\ result.kind = "Ok"
                         /\ dest = ExpectedSink(rd.stream).sink

\* C5 witness: a returned fetch that skipped a section holding a band-shaped
\* line and then read a packfile section with data and progress lines
C5_Witness ==
    /\ pc = "ret"
    /\ result.kind = "Ok"
    /\ ExpectedSink(rd.stream).ok
    /\ rd.stream[1] = HdrAck
    /\ rd.stream[2] = D1
    /\ \E i \in 1..rd.pos : rd.stream[i] = Progress
    /\ dest = <<7, 8, 9>>

\* the text of a channel-3 line the demultiplexer has handed to its callback
LoggedErrors == { log[i].text : i \in { j \in 1..Len(log) : log[j].level = "error" } }

\* C6: when a channel-3 line occurs in the packfile section the fetch fails
\* with an error that carries the server's message text.
C6_UpstreamErrorCarriesMessage ==
    (pc = "ret" /\ LoggedErrors # {}) =>
        /\ result.kind = "Err"
        /\ \E m \in LoggedErrors : result.detail = TrimEnd(m) /\ m # <<>>

\* C7: when the response reaches end-of-stream without a packfile section
\* header, the fetch has failed (it has returned an error).
C7_EndOfStreamFailsWithNoPackSection ==
    (rd.eof /\ \A i \in 1..Len(rd.stream) : ~IsPackfileHeader(rd.stream[i])) =>
        /\ pc = "ret"
        /\ result.kind = "Err"

(***************************************************************************)
(* Claims about fetch_srcinfo_batch and the three requests (Spec).         *)
(***************************************************************************)
\* the ObjectId of the i-th input string
InputId(i) == FromHex(commits[i]).id

BatchReturnedOk == op = "batch" /\ pc = "done" /\ result.kind = "Ok"

\* C1: a successful batch returns one entry per input id, at the same index;
\* entry i is None exactly when input id i is not a key of Phase A's map, and
\* a present entry carries the committer time Phase A mapped to input id i.
C1_OutputAlignedWithInput ==
    BatchReturnedOk =>
        /\ Len(result.value) = Len(commits)
        /\ \A i \in 1..Len(commits) :
             /\ result.value[i].some = (InputId(i) \in DOMAIN commit_data)
             /\ result.value[i].some =>
                  result.value[i].committed_at = commit_data[InputId(i)][2]

\* C1 witness: an id the pack lacks, then an id it holds, in that order
C1_Witness ==
    /\ BatchReturnedOk
    /\ commits = <<Str("b", HexLen), Str("A", HexLen)>>
    /\ DOMAIN commit_data = {IdA, IdC}
    /\ ~result.value[1].some
    /\ result.value[2].some
    /\ result.value[2].committed_at = 100

\* C2: at every position whose commit is in Phase A's map and whose blob was
\* decoded in Phase B, the record's text is that blob's content and its
\* committed_at the commit's committer time, also when several positions
\* resolve to the same blob id.
C2_EveryPositionCarriesBlobText ==
    BatchReturnedOk =>
        \A i \in 1..Len(commits) :
            (/\ InputId(i) \in DOMAIN commit_data
             /\ commit_data[InputId(i)][1] \in DOMAIN blobs_ret) =>
                /\ result.value[i].some
                /\ result.value[i].srcinfo_text = blobs_ret[commit_data[InputId(i)][1]]
                /\ result.value[i].committed_at = commit_data[InputId(i)][2]

Malformed(str) == Len(str) # 40 \/ \E i \in 1..Len(str) : str[i] \notin DOMAIN HexVal

\* C3: with a malformed input id the batch returns an error to its caller
\* (it does not abort) and no HTTP request has been sent.
C3_MalformedIdIsReturnedAsError ==
    (op = "batch" /\ \E i \in 1..Len(commits) : Malformed(commits[i])) =>
        /\ pc # "panicked"
        /\ requests = <<>>
        /\ pc # "parse" => (pc = "done" /\ result.kind = "Err")

\* C4: a second (Phase B) request has been sent only if Phase A returned Ok,
\* with its response received, its packfile decoded and dropped; once Phase
\* A has failed the batch has returned Phase A's error and only Phase A's
\* request was ever sent.
C4_PhaseBOnlyAfterPhaseASucceeded ==
    op = "batch" =>
        /\ Len(requests) >= 2 =>
             /\ a_outcome.kind = "Ok"
             /\ responses[1] \in 200..299
             /\ tempfile["A"] = "deleted"
        /\ a_outcome.kind = "Err" =>
             /\ Len(requests) = 1
             /\ pc = "done"
             /\ result = a_outcome

\* C4 witness: Phase A fails at its last step, on a commit without a tree
C4_Witness ==
    /\ op = "batch"
    /\ a_outcome.kind = "Err"
    /\ a_outcome.msg = "Commit missing tree"
    /\ pc = "done"
    /\ Len(requests) = 1

Last(seq) == seq[Len(seq)]

\* C8: when the latest response (to the advertise-refs GET, the Phase A POST
\* or the Phase B POST) has a non-2xx status, the operation has returned an
\* error carrying that status; no reader was opened on that response's body
\* and the phase created no temporary packfile.
C8_Non2xxFailsWithStatus ==
    (responses # <<>> /\ Last(responses) \notin 200..299) =>
        /\ pc = "done"
        /\ result.kind = "Err"
        /\ result.status = Last(responses)
        /\ rd_opened = Len(responses) - 1
        /\ op = "batch" => tempfile[phase] = "none"
        /\ op = "branch_list" => tempfile = NoFiles /\ branches = EmptyMap

\* C8 witness: Phase B answered 404 after a successful Phase A
C8_Witness ==
    /\ op = "batch"
    /\ responses = <<200, 404>>
    /\ phase = "B"
    /\ result.status = 404
    /\ DOMAIN commit_data # {}

\* C9: a phase's temporary packfile exists only while that phase fn is
\* running, between its creation and the fn's return: once the phase has
\* returned (Ok or Err) or the batch was abandoned, the file is gone.
C9_TempFileGoneWhenPhaseReturns ==
    \A ph \in {"A", "B"} :
        tempfile[ph] = "exists" =>
            /\ phase = ph
            /\ pc \in {"hdr", "skip", "copy", "decode"}

\* C9 witness: the batch is abandoned while Phase B streams into its file
C9_Witness ==
    /\ pc = "cancelled"
    /\ phase = "B"
    /\ dest # <<>>
    /\ tempfile = [ph \in {"A", "B"} |-> "deleted"]

\* the packet lines of a fetch body, as on the wire
WantPkt(id) == [len |-> 50, payload |-> "want " \o ToHex(id) \o "\n"]
BodyHead ==
    << [len |-> 18, payload |-> "command=fetch\n"],
       [len |-> 25, payload |-> "agent=git/aur-mirror\n"],
       [len |-> 1, payload |-> ""] >>
BodyTailA ==
    << [len |-> 14, payload |-> "ofs-delta\n"],
       [len |-> 13, payload |-> "deepen 1\n"],
       [len |-> 21, payload |-> "filter blob:none\n"],
       [len |-> 16, payload |-> "no-progress\n"],
       [len |-> 9, payload |-> "done\n"],
       [len |-> 0, payload |-> ""] >>
BodyTailB ==
    << [len |-> 14, payload |-> "ofs-delta\n"],
       [len |-> 16, payload |-> "no-progress\n"],
       [len |-> 9, payload |-> "done\n"],
       [len |-> 0, payload |-> ""] >>

\* C10: Phase A's body is command=fetch, agent, delimiter, one want per input
\* id in input order, ofs-delta, deepen 1, filter blob:none, no-progress,
\* done, flush; Phase B's body is the same without deepen 1 and filter
\* blob:none, its wants being the blob ids of Phase A's map, one per entry.
C10_FetchBodies ==
    op = "batch" =>
        /\ Len(requests) >= 1 =>
             requests[1].body =
                 BodyHead \o [i \in 1..Len(commits) |-> WantPkt(InputId(i))] \o BodyTailA
        /\ Len(requests) >= 2 =>
             /\ \E order \in Orders(DOMAIN commit_data) :
                  requests[2].body =
                      BodyHead
                      \o [i \in 1..Len(order) |-> WantPkt(commit_data[order[i]][1])]
                      \o BodyTailB
             /\ \A k \in 1..Len(requests[2].body) :
                  requests[2].body[k].payload \notin {"deepen 1\n", "filter blob:none\n"}
        /\ Len(requests) <= 2

\* C10 witness: both bodies sent, each with two want lines
C10_Witness ==
    /\ op = "batch"
    /\ Len(requests) = 2
    /\ Len(requests[1].body) = 11
    /\ Len(requests[2].body) = 9
    /\ requests[2].body[4] # requests[2].body[5]

(***************************************************************************)
(* Claims about the request headers.                                       *)
(***************************************************************************)
\* C11: every request sent (the advertise-refs GET and both fetch POSTs)
\* carries Git-Protocol: version=2 and the harvester's User-Agent, and carries
\* a Basic credential whose username is the token exactly when a token was
\* supplied.
C11_EveryRequestCarriesCommonHeaders ==
    \A i \in 1..Len(requests) :
        /\ <<"Git-Protocol", "version=2">> \in requests[i].headers
        /\ <<"User-Agent", UserAgent>> \in requests[i].headers
        /\ requests[i].basic_auth = token

(***************************************************************************)
(* Claims about the decoding of the two packs.                             *)
(***************************************************************************)
\* the objects a pack's entry codes stand for, and whether every part of the
\* pack is intact: its header, every entry, every delta base
PackObjects(bytes) ==
    { Objects[bytes[i] - PackCode(0)] : i \in { j \in 2..Len(bytes) : IsEntry(bytes[j]) } }
IntactPack(bytes) ==
    /\ bytes # <<>>
    /\ bytes[1] = PackHeader
    /\ \A i \in 2..Len(bytes) : IsEntry(bytes[i])
    /\ \A o \in PackObjects(bytes) : o.kind # "refdelta"

\* the blob-mode entries named .SRCINFO of a tree
SrcinfoEntries(t) ==
    { i \in 1..Len(t.entries) :
        t.entries[i].filename = ".SRCINFO" /\ t.entries[i].mode \in {"blob", "exe"} }

\* C12: when Phase A has returned its map for an intact pack, a commit of the
\* pack is a key of the map if and only if the pack holds its tree and that
\* tree has a blob-mode entry named .SRCINFO, and it is then mapped to that
\* entry's blob id and the commit's committer time; this for every commit of
\* the pack, also for commits that point to the same tree.
C12_MapHoldsEveryCommitWithSrcinfo ==
    (op = "batch" /\ pc = "sendB" /\ IntactPack(dest)) =>
        LET objs == PackObjects(dest)
            cs == { o \in objs : o.kind = "commit" }
            ts == { o \in objs : o.kind = "tree" }
        IN  /\ DOMAIN commit_data \subseteq { c.id : c \in cs }
            /\ \A c \in cs :
                 (c.id \in DOMAIN commit_data) <=>
                     (\E t \in ts : t.id = c.tree /\ SrcinfoEntries(t) # {})
            /\ \A c \in cs :
                 c.id \in DOMAIN commit_data =>
                     \E t \in ts :
                         /\ t.id = c.tree
                         /\ \E i \in SrcinfoEntries(t) :
                              commit_data[c.id] = <<t.entries[i].oid, c.time>>

\* the positions in a pack of the commits that lack a tree or a committer
\* line with a parseable time
Shapeless(bytes) ==
    { i \in 2..Len(bytes) :
        /\ IsEntry(bytes[i])
        /\ Objects[bytes[i] - PackCode(0)].kind = "commit"
        /\ \/ Objects[bytes[i] - PackCode(0)].tree = NoId
           \/ Objects[bytes[i] - PackCode(0)].time = NoTime }

\* the first such commit, when every entry before it decodes
FirstShapeless(bytes) ==
    LET k == Least(Shapeless(bytes))
    IN  [reached |-> /\ bytes[1] = PackHeader
                     /\ \A j \in 2..(k - 1) :
                          /\ IsEntry(bytes[j])
                          /\ Objects[bytes[j] - PackCode(0)].kind # "refdelta",
         commit |-> Objects[bytes[k] - PackCode(0)]]

\* C13: when Phase A decodes a pack holding a commit without a tree or
\* without a committer time, Phase A fails with an error naming that commit's
\* id, fetch_srcinfo_batch returns that error, without a map, a second
\* request or a record, whether or not the commit was requested.
C13_ShapelessCommitFailsTheBatch ==
    [][(/\ op = "batch" /\ pc = "decode" /\ phase = "A"
        /\ Shapeless(dest) # {}
        /\ FirstShapeless(dest).reached) =>
           /\ pc' = "done"
           /\ a_outcome' = result'
           /\ result'.kind = "Err"
           /\ result'.msg = (IF FirstShapeless(dest).commit.tree = NoId
                             THEN "Commit missing tree" ELSE "Commit missing time")
           /\ result'.detail = FirstShapeless(dest).commit.id
           /\ commit_data' = EmptyMap
           /\ requests' = requests]_vars

\* C13 witness: the batch has failed on a commit without a committer time
\* that was sent along with, and is not among, the requested commits
C13_Witness ==
    /\ op = "batch"
    /\ pc = "done"
    /\ phase = "A"
    /\ result.kind = "Err"
    /\ result.msg = "Commit missing time"
    /\ result.detail = Oid(14)
    /\ commit_ids # <<>>
    /\ \A i \in 1..Len(commit_ids) : commit_ids[i] # Oid(14)
    /\ Len(requests) = 1

\* C14: a harvest phase that returns a map has decoded an intact pack: a
\* pack with a bad header, a bad entry or an unresolvable delta base makes
\* the phase fail, and no map is built from the entries that did decode.
C14_CorruptPackFailsTheHarvest ==
    (op = "batch" /\ pc \in {"sendB", "emit"}) => IntactPack(dest)

\* the map Phase B owes for a pack: every blob whose bytes are valid UTF-8,
\* with its content
Utf8Blobs(bytes) == { o \in PackObjects(bytes) : o.kind = "blob" /\ IsUtf8(o.bytes) }

\* C15: when Phase B decodes an intact pack, it returns success whatever the
\* parser says of its blobs: the map has no entry for a blob that is not
\* valid UTF-8 and maps every other blob of the pack to its content; the
\* batch then returns Ok.
C15_RejectedBlobIsLeftOut ==
    [][/\ (op = "batch" /\ pc = "decode" /\ phase = "B" /\ IntactPack(dest)) =>
             /\ pc' = "emit"
             /\ DOMAIN blobs_ret' = { o.id : o \in Utf8Blobs(dest) }
             /\ \A o \in Utf8Blobs(dest) : blobs_ret'[o.id] = o.bytes
       /\ (op = "batch" /\ pc = "emit") => (pc' = "done" /\ result'.kind = "Ok")]_vars

\* C15 witness: Phase B returned a map for a pack holding a blob that is not
\* UTF-8 followed by one that is
C15_Witness ==
    /\ op = "batch"
    /\ pc = "emit"
    /\ dest = <<PackHeader, Obj(11), Obj(9)>>
    /\ DOMAIN blobs_ret = {IdB1}
    /\ blobs_ret[IdB1] = TxtPkg

(***************************************************************************)
(* Claims about the records of commits whose blob Phase B did not deliver. *)
(***************************************************************************)
\* the input positions whose commit is in Phase A's map while its blob id is
\* not in the map Phase B returned
WithoutBlob ==
    { i \in 1..Len(commits) :
        /\ InputId(i) \in DOMAIN commit_data
        /\ commit_data[InputId(i)][1] \notin DOMAIN blobs_ret }

\* C16: when both phases have returned, the batch returns Ok, and at every
\* position whose commit is in Phase A's map while its blob id is missing
\* from Phase B's map the record is present, with empty text and the
\* commit's committed_at.
C16_MissingBlobGivesEmptyText ==
    [][(op = "batch" /\ pc = "emit") =>
           /\ result'.kind = "Ok"
           /\ \A i \in WithoutBlob :
                result'.value[i] = Some(<<>>, commit_data[InputId(i)][2])]_vars

\* C16 witness: a returned batch whose first commit is mapped by Phase A to a
\* blob that Phase B's pack did not hold
C16_Witness ==
    /\ BatchReturnedOk
    /\ 1 \in WithoutBlob
    /\ blobs_ret # EmptyMap
    /\ result.value[1].some
    /\ result.value[1].srcinfo_text = <<>>

(***************************************************************************)
(* Claims about fetch_branch_list.                                         *)
(***************************************************************************)
\* the position of the k-th flush packet of a body (0 when there is none)
FlushAt(s, k) ==
    LET at == { i \in 1..Len(s) :
                  s[i] = Flush /\ Cardinality({ j \in 1..i : s[j] = Flush }) = k }
    IN  IF at = {} THEN 0 ELSE Least(at)

IsHexDigit(b) == b \in (48..57) \cup (97..102) \cup (65..70)
IsHex40(bytes) == Len(bytes) = 40 /\ \A i \in 1..Len(bytes) : IsHexDigit(bytes[i])

\* a line of the shape `<text> refs/heads/<branch>`, its two parts, and
\* whether the text before is a 40-hex commit id
HasRefShape(l) == IsText(l) /\ SplitOnce(l.bytes, TxtRefsHeads).found
RefId(l) == SplitOnce(l.bytes, TxtRefsHeads).before
RefBranch(l) == TrimEnd(SplitOnce(l.bytes, TxtRefsHeads).after)
IsRefLine(l) == HasRefShape(l) /\ IsHex40(RefId(l))

\* the positions of the ref lines that follow the first flush
RefLinesAfterFirstFlush(s) ==
    { i \in 1..Len(s) : FlushAt(s, 1) # 0 /\ i > FlushAt(s, 1) /\ IsRefLine(s[i]) }

BranchListReturnedOk == op = "branch_list" /\ pc = "done" /\ result.kind = "Ok"

\* C17: the map fetch_branch_list returns never has the key `main`, and for
\* every ref line `<commit-id> refs/heads/<branch>` after the first flush
\* whose branch is not main it maps the branch to a commit id advertised for
\* that branch.
C17_BranchMapHoldsEveryRefButMain ==
    BranchListReturnedOk =>
        /\ TxtMain \notin DOMAIN result.value
        /\ \A i \in RefLinesAfterFirstFlush(rd.stream) :
             RefBranch(rd.stream[i]) # TxtMain =>
                 /\ RefBranch(rd.stream[i]) \in DOMAIN result.value
                 /\ \E j \in RefLinesAfterFirstFlush(rd.stream) :
                      /\ RefBranch(rd.stream[j]) = RefBranch(rd.stream[i])
                      /\ result.value[RefBranch(rd.stream[i])] = RefId(rd.stream[j])

\* the branch names of the ref-shaped lines after the first flush
ShapedAfter(s) ==
    { RefBranch(s[i]) : i \in { j \in 1..Len(s) :
        FlushAt(s, 1) # 0 /\ j > FlushAt(s, 1) /\ HasRefShape(s[j]) } }

\* C18: while the lines up to the first flush are read nothing is recorded,
\* and a branch is only ever recorded from a line after the first flush; when
\* fetch_branch_list returns its map it has read every line of the response,
\* those after a second flush included.
C18_SkipsFirstPartThenReadsAllLines ==
    op = "branch_list" =>
        /\ pc = "refsSkip" => branches = EmptyMap
        /\ DOMAIN branches \subseteq ShapedAfter(rd.stream)
        /\ BranchListReturnedOk => rd.pos = Len(rd.stream)

\* C19: a line is recorded only when the text before ` refs/heads/` is a
\* 40-hex commit id: every value of the map being filled, and of the map
\* returned, is exactly 40 hexadecimal characters.
C19_EveryValueIsA40HexId ==
    op = "branch_list" =>
        /\ \A b \in DOMAIN branches : IsHex40(branches[b])
        /\ BranchListReturnedOk =>
             \A b \in DOMAIN result.value : IsHex40(result.value[b])

(***************************************************************************)
(* Claims about DatabaseOps::new (SpecDb).                                 *)
(***************************************************************************)
\* C20: after a successful open of the store, whatever version the file held
\* before, the persisted schema version equals CURRENT_DB_VERSION.
C20_VersionIsCurrentAfterOpen ==
    (op = "open" /\ pc = "done" /\ result.kind = "Ok") =>
        db.user_version = CURRENT_DB_VERSION

\* C21: after a successful open that found an effective version below
\* CURRENT_DB_VERSION (the local `version`: a cell of 0 with a pkg_info table
\* counts as 1), each of the eleven data tables exists and is empty: none
\* holds a row written before the open.
C21_OutdatedStoreIsEmptiedOnOpen ==
    (op = "open" /\ pc = "done" /\ result.kind = "Ok" /\ version < CURRENT_DB_VERSION) =>
        \A i \in 1..Len(TableNames) :
            /\ TableNames[i] \in DOMAIN db.tables
            /\ db.tables[TableNames[i]] = {}

(***************************************************************************)
(* The relational store behind DatabaseOps (src/src/database.rs from line  *)
(* 204).  A table is the set of its rows; `store` holds what is committed. *)
(* Texts that are searched (names, descriptions, dependencies) are byte    *)
(* sequences; a nullable value is Null or NotNull(v); popularity (a REAL) *)
(* is kept as an integer.                                                  *)
(***************************************************************************)
Null == [some |-> FALSE]
NotNull(v) == [some |-> TRUE, v |-> v]

RelationTables ==
    <<"pkg_depends", "pkg_make_depends", "pkg_opt_depends", "pkg_check_depends",
      "pkg_provides", "pkg_conflicts", "pkg_replaces", "pkg_groups">>

\* the tables clear_index_with_tx walks
PerBranchTables == <<"pkg_info">> \o RelationTables

EmptyStore ==
    [pkg_info |-> {}, relations |-> {}, branch_commits |-> {}, pkg_supplement |-> {}]

\* DELETE FROM t, without the WHERE clause
DeleteAllBranches(st, t, branch) ==
    IF t = "pkg_info"
    THEN [st EXCEPT !.pkg_info = {}]
    ELSE [st EXCEPT !.relations = {r \in @ : r.table # t}]
\* DELETE FROM t WHERE branch = ?
DeleteWhereBranch(st, t, branch) ==
    IF t = "pkg_info"
    THEN [st EXCEPT !.pkg_info = {r \in @ : r.branch # branch}]
    ELSE [st EXCEPT !.relations = {r \in @ : ~(r.table = t /\ r.branch = branch)}]

\* an upsert (ON CONFLICT DO UPDATE of the bound columns): a row of the same
\* (branch, pkg_name) keeps its is_listed
InsertOrUpdatePkgInfo(st, pkg) ==
    LET old == {r \in st.pkg_info : r.branch = pkg.branch /\ r.pkg_name = pkg.pkg_name}
    IN  [st EXCEPT !.pkg_info =
            (@ \ old)
            \cup {[branch |-> pkg.branch, pkg_name |-> pkg.pkg_name,
                   pkg_desc |-> pkg.pkg_desc, version |-> pkg.version,
                   url |-> pkg.url, commit_id |-> pkg.commit_id,
                   is_listed |-> IF old = {} THEN 1 ELSE (CHOOSE r \in old : TRUE).is_listed,
                   committed_at |-> pkg.committed_at]}]

\* INSERT OR REPLACE INTO pkg_info (branch, pkg_name, pkg_desc, version, url,
\* commit_id, committed_at): the row of the same (branch, pkg_name) goes, and
\* is_listed takes its DEFAULT 1
InsertOrReplacePkgInfo(st, pkg) ==
    [st EXCEPT !.pkg_info =
        {r \in @ : ~(r.branch = pkg.branch /\ r.pkg_name = pkg.pkg_name)}
        \cup {[branch |-> pkg.branch, pkg_name |-> pkg.pkg_name,
               pkg_desc |-> pkg.pkg_desc, version |-> pkg.version,
               url |-> pkg.url, commit_id |-> pkg.commit_id,
               is_listed |-> 1, committed_at |-> pkg.committed_at]}]

\* INSERT OR IGNORE INTO t (branch, pkg_name, column) VALUES (?, ?, ?)
InsertOrIgnore(st, t, branch, pkg_name, item) ==
    [st EXCEPT !.relations =
        @ \cup {[table |-> t, branch |-> branch, pkg_name |-> pkg_name, item |-> item]}]

\* INSERT OR REPLACE INTO branch_commits (branch, commit_id)
InsertOrReplaceBranchCommit(st, branch, commit_id) ==
    [st EXCEPT !.branch_commits =
        {r \in @ : r.branch # branch} \cup {[branch |-> branch, commit_id |-> commit_id]}]

\* INSERT OR REPLACE INTO pkg_supplement: the row of the same pkgname goes
InsertOrReplaceSupplement(st, s) ==
    [st EXCEPT !.pkg_supplement = {r \in @ : r.pkgname # s.pkgname} \cup {s}]

\* one statement sent to SQLite
Execute(st, q) ==
    CASE q.sql = "DELETE WHERE branch" -> DeleteWhereBranch(st, q.table, q.branch)
      [] q.sql = "INSERT OR REPLACE pkg_info" -> InsertOrReplacePkgInfo(st, q.pkg)
      [] q.sql = "INSERT OR IGNORE" ->
            InsertOrIgnore(st, q.table, q.branch, q.pkg_name, q.item)
      [] q.sql = "INSERT OR REPLACE branch_commits" ->
            InsertOrReplaceBranchCommit(st, q.branch, q.commit_id)
      [] q.sql = "DELETE pkg_supplement" -> [st EXCEPT !.pkg_supplement = {}]
      [] q.sql = "INSERT OR REPLACE pkg_supplement" ->
            InsertOrReplaceSupplement(st, q.supplement)

\* the first n statements of qs, in order; the store after a statement is
\* computed before the next statement is looked at
RECURSIVE ExecuteFirst(_, _, _)
ExecuteFirst(st, qs, n) ==
    IF n = 0 \/ qs = <<>> THEN st
    ELSE CHOOSE after \in {ExecuteFirst(next, Tail(qs), n - 1) :
                                next \in {Execute(st, Head(qs))}} : TRUE

\* a clear_index_with_tx that walks pkg_info only
ClearIndexStatementsInfoOnly(branch) ==
    <<[sql |-> "DELETE WHERE branch", table |-> "pkg_info", branch |-> branch]>>
\* the statements of clear_index_with_tx
ClearIndexStatements(branch) ==
    [i \in 1..Len(PerBranchTables) |->
        [sql |-> "DELETE WHERE branch", table |-> PerBranchTables[i], branch |-> branch]]

\* the statements of store_array_tx
StoreArrayStatements(branch, pkg_name, t, items) ==
    [i \in 1..Len(items) |->
        [sql |-> "INSERT OR IGNORE", table |-> t, branch |-> branch,
         pkg_name |-> pkg_name, item |-> items[i]]]

\* the lists of a package, in the order update_index_with_tx stores them
PackageLists(pkg) ==
    <<pkg.depends, pkg.make_depends, pkg.opt_depends, pkg.check_depends,
      pkg.provides, pkg.conflicts, pkg.replaces, pkg.groups>>

\* the statements of one turn of update_index_with_tx's loop
PackageStatements(pkg) ==
    <<[sql |-> "INSERT OR REPLACE pkg_info", pkg |-> pkg]>>
    \o Concat([i \in 1..Len(RelationTables) |->
                StoreArrayStatements(pkg.branch, pkg.pkg_name, RelationTables[i],
                                     PackageLists(pkg)[i])])

\* the statements of update_index_with_tx
UpdateIndexStatements(packages) ==
    Concat([i \in 1..Len(packages) |-> PackageStatements(packages[i])])

\* the statement of update_branch_commit_with_tx
UpdateBranchCommitStatements(branch, commit_id) ==
    <<[sql |-> "INSERT OR REPLACE branch_commits", branch |-> branch,
       commit_id |-> commit_id]>>

\* the row store_supplement_data binds for one entry of its list (the two
\* JSON columns, co_maintainers and keywords, are left out of the model)
SupplementRow(s) ==
    [pkgname |-> s.pkgname, version |-> s.version, popularity |-> s.popularity,
     num_votes |-> s.num_votes, out_of_date |-> s.out_of_date,
     maintainer |-> s.maintainer, submitter |-> s.submitter,
     first_submitted |-> s.first_submitted, last_modified |-> s.last_modified]

\* the statements of store_supplement_data's transaction
StoreSupplementStatements(supplements) ==
    <<[sql |-> "DELETE pkg_supplement"]>>
    \o [i \in 1..Len(supplements) |->
          [sql |-> "INSERT OR REPLACE pkg_supplement",
           supplement |-> SupplementRow(supplements[i])]]

\* SELECT MAX(last_modified) FROM pkg_supplement: NULL over an empty table
MaxLastModified(st) ==
    IF st.pkg_supplement = {} THEN Null
    ELSE NotNull(CHOOSE m \in {s.last_modified : s \in st.pkg_supplement} :
                    \A s \in st.pkg_supplement : s.last_modified <= m)

GAP == 86400

\* UPDATE pkg_info SET is_listed = CASE ... END, with ? bound to threshold
\* (committed_at is bound from an i64 and so is never NULL)
UpdateIsListed(st, threshold) ==
    [st EXCEPT !.pkg_info =
        {[p EXCEPT !.is_listed =
            CASE p.pkg_name \in {s.pkgname : s \in st.pkg_supplement} -> 1
              [] OTHER -> IF p.committed_at < threshold THEN 0 ELSE 1] : p \in @}]

\* ASCII lower case, as LIKE compares
Lower(b) == IF b >= 65 /\ b <= 90 THEN b + 32 ELSE b
\* text LIKE '%keyword%'
Like(text, keyword) ==
    \E i \in 0..(Len(text) - Len(keyword)) :
        \A j \in 1..Len(keyword) : Lower(text[i + j]) = Lower(keyword[j])

SearchTypes ==
    {"Name", "NameDesc", "Depends", "MakeDepends", "OptDepends", "CheckDepends"}

\* the relation table a search mode joins
SearchTable(search_type) ==
    CASE search_type = "Depends" -> "pkg_depends"
      [] search_type = "MakeDepends" -> "pkg_make_depends"
      [] search_type = "OptDepends" -> "pkg_opt_depends"
      [] search_type = "CheckDepends" -> "pkg_check_depends"

\* the WHERE clause of the six queries without the is_listed filter
SearchMatchesUnfiltered(st, search_type, keyword) ==
    {p \in st.pkg_info :
        CASE search_type = "Name" -> Like(p.pkg_name, keyword)
          [] search_type = "NameDesc" ->
                \/ Like(p.pkg_name, keyword)
                \/ p.pkg_desc.some /\ Like(p.pkg_desc.v, keyword)
          [] OTHER ->
                \E d \in st.relations :
                    /\ d.table = SearchTable(search_type)
                    /\ d.pkg_name = p.pkg_name
                    /\ d.branch = p.branch
                    /\ d.item = keyword}
\* a search whose Depends mode lacks `AND p.is_listed = 1`
SearchMatchesDependsUnlisted(st, search_type, keyword) ==
    {p \in SearchMatchesUnfiltered(st, search_type, keyword) :
        search_type = "Depends" \/ p.is_listed = 1}
\* the pkg_info rows the query of a search mode selects
SearchMatches(st, search_type, keyword) ==
    {p \in SearchMatchesUnfiltered(st, search_type, keyword) : p.is_listed = 1}

\* LEFT JOIN pkg_supplement s ON p.pkg_name = s.pkgname: the joined columns,
\* all NULL for a package without a supplement row
NoSupplement ==
    [joined |-> FALSE, version |-> Null, popularity |-> Null, num_votes |-> Null,
     out_of_date |-> Null, maintainer |-> Null, submitter |-> Null,
     first_submitted |-> Null, last_modified |-> Null]
LeftJoinSupplement(st, p) ==
    IF \E s \in st.pkg_supplement : s.pkgname = p.pkg_name
    THEN LET s == CHOOSE s \in st.pkg_supplement : s.pkgname = p.pkg_name
         IN  [joined |-> TRUE, version |-> NotNull(s.version),
              popularity |-> NotNull(s.popularity), num_votes |-> NotNull(s.num_votes),
              out_of_date |-> s.out_of_date, maintainer |-> s.maintainer,
              submitter |-> s.submitter,
              first_submitted |-> NotNull(s.first_submitted),
              last_modified |-> NotNull(s.last_modified)]
    ELSE NoSupplement

\* the DatabasePackageInfoWithSupplement both reads build from a joined row,
\* given what the row gave for the supplement's version
InfoWithSupplement(p, s, supplement_version) ==
    LET version_matches == supplement_version.some /\ supplement_version.v = p.version
    IN  [commit_id |-> p.commit_id, committed_at |-> p.committed_at,
         branch |-> p.branch, pkg_name |-> p.pkg_name, pkg_desc |-> p.pkg_desc,
         version |-> p.version, url |-> p.url,
         popularity |-> s.popularity, num_votes |-> s.num_votes,
         out_of_date |-> IF version_matches THEN s.out_of_date ELSE Null,
         maintainer |-> s.maintainer, submitter |-> s.submitter,
         first_submitted |-> s.first_submitted,
         last_modified |-> IF version_matches THEN s.last_modified ELSE Null]

\* search_packages: the SELECT list has no s.version column, so
\* row.try_get("s.version") is an Err and .ok() makes it None
SearchPackagesResult(st, search_type, keyword) ==
    {InfoWithSupplement(p, LeftJoinSupplement(st, p), Null) :
        p \in SearchMatches(st, search_type, keyword)}

\* get_package_details' main query: s.version is selected as s_version
DetailsRows(st, package_names) ==
    {p \in st.pkg_info :
        (\E i \in 1..Len(package_names) : package_names[i] = p.pkg_name)
        /\ p.is_listed = 1}
\* a get_package_details that reads the supplement's version as
\* search_packages does
DetailsInfoWithoutVersionColumn(st, p) ==
    InfoWithSupplement(p, LeftJoinSupplement(st, p), Null)
DetailsInfo(st, p) ==
    InfoWithSupplement(p, LeftJoinSupplement(st, p), LeftJoinSupplement(st, p).version)
\* SELECT column FROM t WHERE pkg_name = ? AND branch = ?
RelationItems(st, t, p) ==
    {d.item : d \in {d \in st.relations :
                        d.table = t /\ d.pkg_name = p.pkg_name /\ d.branch = p.branch}}

(***************************************************************************)
(* Tasks on an opened store.  Each connection of the pool runs one task;   *)
(* SQLite lets one connection write at a time: a transaction takes the     *)
(* write lock at its first writing statement and holds it until COMMIT or  *)
(* ROLLBACK, and what it wrote shows to the others only from its COMMIT.   *)
(* A statement may fail where it stands (SQLITE_BUSY when the lock is      *)
(* held, an I/O error, a full disk); the `?` then hands the error on.      *)
(***************************************************************************)
Updaters == {"u1", "u2"}
Tasks == Updaters \cup {"s", "r", "f"}

openVars == <<db, version, table, op, pc, result>>

\* a task without a transaction; threshold, rows and at (the index a loop
\* is at) are locals of its fn
NoTx == [open |-> FALSE, work |-> EmptyStore, threshold |-> Null, rows |-> {}, at |-> 1]

\* sqlx::Transaction dropped without commit, or ROLLBACK: what it wrote goes
Rollback(p) ==
    /\ tx' = [tx EXCEPT ![p] = NoTx]
    /\ wlock' = IF wlock = p THEN "none" ELSE wlock
    /\ UNCHANGED store

\* COMMIT: what the transaction wrote becomes the committed content
CommitTx(p) ==
    /\ store' = IF wlock = p THEN tx[p].work ELSE store
    /\ tx' = [tx EXCEPT ![p] = NoTx]
    /\ wlock' = IF wlock = p THEN "none" ELSE wlock

\* statements sent one after the other on transaction p with `.await?`: the
\* first n succeed; with n < Len(qs) statement n + 1 fails and the fn
\* returns its error, otherwise the fn goes on at `next`
RunStatements(p, qs, n, next) ==
    /\ n >= 1 => wlock \in {"none", p}
    /\ tx' = [tx EXCEPT ![p].work =
                ExecuteFirst(IF wlock = p THEN @ ELSE store, qs, n)]
    /\ wlock' = IF n >= 1 THEN p ELSE wlock
    /\ IF n = Len(qs)
       THEN /\ ppc' = [ppc EXCEPT ![p] = next]
            /\ UNCHANGED outcome
       ELSE /\ ppc' = [ppc EXCEPT ![p] = "failed"]
            /\ outcome' = [outcome EXCEPT ![p] = Err("error returned from database")]
    /\ UNCHANGED <<store, input, contacted>>

\* the order in which a branch update calls DatabaseOps
BranchUpdateSteps == <<"begin", "clear", "index", "branch_commit", "commit", "done">>
StepAfter(step) ==
    BranchUpdateSteps[1 + CHOOSE i \in 1..Len(BranchUpdateSteps) : BranchUpdateSteps[i] = step]

\* begin_transaction: self.pool.begin()
BeginTransaction(u) ==
    /\ ppc[u] = "begin"
    /\ \/ /\ tx' = [tx EXCEPT ![u] = [NoTx EXCEPT !.open = TRUE]]
          /\ ppc' = [ppc EXCEPT ![u] = StepAfter("begin")]
          /\ UNCHANGED outcome
       \/ /\ outcome' = [outcome EXCEPT ![u] = Err("pool timed out")]
          /\ ppc' = [ppc EXCEPT ![u] = "done"]
          /\ UNCHANGED tx
    /\ UNCHANGED <<store, wlock, input, contacted, openVars, fetcherVars>>

ClearIndexWithTx(u) ==
    /\ ppc[u] = "clear"
    /\ LET qs == ClearIndexStatements(input[u].branch)
       IN  \E n \in 0..Len(qs) : RunStatements(u, qs, n, StepAfter("clear"))
    /\ UNCHANGED <<openVars, fetcherVars>>

UpdateIndexWithTx(u) ==
    /\ ppc[u] = "index"
    /\ LET qs == UpdateIndexStatements(input[u].packages)
       IN  \E n \in 0..Len(qs) : RunStatements(u, qs, n, StepAfter("index"))
    /\ UNCHANGED <<openVars, fetcherVars>>

UpdateBranchCommitWithTx(u) ==
    /\ ppc[u] = "branch_commit"
    /\ LET qs == UpdateBranchCommitStatements(input[u].branch, input[u].commit_id)
       IN  \E n \in 0..Len(qs) : RunStatements(u, qs, n, StepAfter("branch_commit"))
    /\ UNCHANGED <<openVars, fetcherVars>>

\* the branch update commits its transaction; a COMMIT that fails leaves
\* the transaction to its drop
CommitBranchUpdate(u) ==
    /\ ppc[u] = "commit"
    /\ \/ /\ CommitTx(u)
          /\ ppc' = [ppc EXCEPT ![u] = StepAfter("commit")]
          /\ outcome' = [outcome EXCEPT ![u] = Ok("committed")]
       \/ /\ ppc' = [ppc EXCEPT ![u] = "failed"]
          /\ outcome' = [outcome EXCEPT ![u] = Err("error returned from database")]
          /\ UNCHANGED <<store, tx, wlock>>
    /\ UNCHANGED <<input, contacted, openVars, fetcherVars>>

\* the branch update ends without a commit, after a failed step or at any
\* point before (its task is cancelled): its transaction is dropped
DropBranchUpdate(u) ==
    /\ tx[u].open
    /\ Rollback(u)
    /\ ppc' = [ppc EXCEPT ![u] = "done"]
    /\ outcome' = [outcome EXCEPT ![u] =
                    IF ppc[u] = "failed" THEN @ ELSE Err("cancelled")]
    /\ UNCHANGED <<input, contacted, openVars, fetcherVars>>

\* a store_supplement_data without the early return on an empty list: it
\* begins its transaction whatever the list
StoreSupplementDataWithoutEmptyCheck ==
    /\ ppc["s"] = "store"
    /\ \/ /\ tx' = [tx EXCEPT !["s"] = [NoTx EXCEPT !.open = TRUE]]
          /\ ppc' = [ppc EXCEPT !["s"] = "write"]
          /\ UNCHANGED outcome
       \/ /\ outcome' = [outcome EXCEPT !["s"] = Err("pool timed out")]
          /\ ppc' = [ppc EXCEPT !["s"] = "done"]
          /\ UNCHANGED tx
    /\ UNCHANGED <<store, wlock, input, contacted, openVars, fetcherVars>>

\* store_supplement_data up to `let mut tx = self.begin_transaction().await?`
StoreSupplementData ==
    /\ ppc["s"] = "store"
    /\ IF input["s"] = <<>>
       THEN /\ outcome' = [outcome EXCEPT !["s"] = Ok("stored")]
            /\ ppc' = [ppc EXCEPT !["s"] = "done"]
            /\ UNCHANGED tx
       ELSE \/ /\ tx' = [tx EXCEPT !["s"] = [NoTx EXCEPT !.open = TRUE]]
               /\ ppc' = [ppc EXCEPT !["s"] = "write"]
               /\ UNCHANGED outcome
            \/ /\ outcome' = [outcome EXCEPT !["s"] = Err("pool timed out")]
               /\ ppc' = [ppc EXCEPT !["s"] = "done"]
               /\ UNCHANGED tx
    /\ UNCHANGED <<store, wlock, input, contacted, openVars, fetcherVars>>

\* a store_supplement_data that sends its DELETE and its inserts to the pool
\* instead of its transaction: each statement commits on its own
WriteSupplementOnPool ==
    /\ ppc["s"] = "write"
    /\ wlock = "none"
    /\ LET qs == StoreSupplementStatements(input["s"])
       IN  \E n \in 0..Len(qs) :
              /\ store' = ExecuteFirst(store, qs, n)
              /\ IF n = Len(qs)
                 THEN /\ ppc' = [ppc EXCEPT !["s"] = "commit"]
                      /\ UNCHANGED outcome
                 ELSE /\ ppc' = [ppc EXCEPT !["s"] = "failed"]
                      /\ outcome' = [outcome EXCEPT !["s"] =
                                        Err("error returned from database")]
    /\ UNCHANGED <<tx, wlock, input, contacted, openVars, fetcherVars>>
\* the DELETE and the loop of INSERT OR REPLACE
WriteSupplement ==
    /\ ppc["s"] = "write"
    /\ LET qs == StoreSupplementStatements(input["s"])
       IN  \E n \in 0..Len(qs) : RunStatements("s", qs, n, "commit")
    /\ UNCHANGED <<openVars, fetcherVars>>

\* tx.commit().await?
CommitSupplement ==
    /\ ppc["s"] = "commit"
    /\ \/ /\ CommitTx("s")
          /\ ppc' = [ppc EXCEPT !["s"] = "max"]
          /\ UNCHANGED outcome
       \/ /\ ppc' = [ppc EXCEPT !["s"] = "failed"]
          /\ outcome' = [outcome EXCEPT !["s"] = Err("error returned from database")]
          /\ UNCHANGED <<store, tx, wlock>>
    /\ UNCHANGED <<input, contacted, openVars, fetcherVars>>

\* a `?` returned while tx was alive: tx is dropped
DropSupplementTx ==
    /\ ppc["s"] = "failed"
    /\ Rollback("s")
    /\ ppc' = [ppc EXCEPT !["s"] = "done"]
    /\ UNCHANGED <<outcome, input, contacted, openVars, fetcherVars>>

\* update_is_listed_status, the SELECT MAX(last_modified) on the pool
ReadMaxLastModified ==
    /\ ppc["s"] = "max"
    /\ \/ LET max_last_modified == MaxLastModified(store)
          IN  IF max_last_modified.some
              THEN /\ tx' = [tx EXCEPT !["s"].threshold =
                                NotNull(max_last_modified.v - GAP)]
                   /\ ppc' = [ppc EXCEPT !["s"] = "update"]
                   /\ UNCHANGED outcome
              ELSE /\ outcome' = [outcome EXCEPT !["s"] = Ok("stored")]
                   /\ ppc' = [ppc EXCEPT !["s"] = "done"]
                   /\ UNCHANGED tx
       \/ /\ outcome' = [outcome EXCEPT !["s"] = Err("error returned from database")]
          /\ ppc' = [ppc EXCEPT !["s"] = "done"]
          /\ UNCHANGED tx
    /\ UNCHANGED <<store, wlock, input, contacted, openVars, fetcherVars>>

\* update_is_listed_status, the UPDATE on the pool (a transaction of its own)
UpdateIsListedStatus ==
    /\ ppc["s"] = "update"
    /\ \/ /\ wlock = "none"
          /\ store' = UpdateIsListed(store, tx["s"].threshold.v)
          /\ outcome' = [outcome EXCEPT !["s"] = Ok("stored")]
       \/ /\ outcome' = [outcome EXCEPT !["s"] = Err("error returned from database")]
          /\ UNCHANGED store
    /\ ppc' = [ppc EXCEPT !["s"] = "done"]
    /\ tx' = [tx EXCEPT !["s"] = NoTx]
    /\ UNCHANGED <<wlock, input, contacted, openVars, fetcherVars>>

\* what the reading task asks for
Keywords == {<<111>>, TxtFoo, TxtPkg}
NameLists == {<<>>, <<TxtFoo>>, <<TxtPkg, TxtFoo, TxtBar>>}

\* search_packages, one query on the pool
SearchPackages ==
    /\ ppc["r"] = "read"
    /\ \E search_type \in SearchTypes, keyword \in Keywords :
          /\ input' = [input EXCEPT !["r"] =
                [fn |-> "search_packages", search_type |-> search_type,
                 keyword |-> keyword]]
          /\ \/ outcome' = [outcome EXCEPT !["r"] =
                    Ok(SearchPackagesResult(store, search_type, keyword))]
             \/ outcome' = [outcome EXCEPT !["r"] = Err("error returned from database")]
    /\ ppc' = [ppc EXCEPT !["r"] = "done"]
    /\ UNCHANGED <<store, wlock, tx, contacted, openVars, fetcherVars>>

\* get_package_details, the main query
GetPackageDetails ==
    /\ ppc["r"] = "read"
    /\ \E package_names \in NameLists :
          /\ input' = [input EXCEPT !["r"] =
                [fn |-> "get_package_details", package_names |-> package_names]]
          /\ IF package_names = <<>>
             THEN /\ outcome' = [outcome EXCEPT !["r"] = Ok({})]
                  /\ ppc' = [ppc EXCEPT !["r"] = "done"]
                  /\ UNCHANGED tx
             ELSE \/ /\ tx' = [tx EXCEPT !["r"].rows =
                                {[row |-> p, info |-> DetailsInfo(store, p)] :
                                    p \in DetailsRows(store, package_names)}]
                     /\ ppc' = [ppc EXCEPT !["r"] = "lists"]
                     /\ UNCHANGED outcome
                  \/ /\ outcome' = [outcome EXCEPT !["r"] =
                                        Err("error returned from database")]
                     /\ ppc' = [ppc EXCEPT !["r"] = "done"]
                     /\ UNCHANGED tx
    /\ UNCHANGED <<store, wlock, contacted, openVars, fetcherVars>>

\* get_package_details, the queries on the eight relation tables that
\* follow for the rows of the main query
ReadRelationLists ==
    /\ ppc["r"] = "lists"
    /\ \/ outcome' = [outcome EXCEPT !["r"] =
            Ok({[info |-> x.info,
                 lists |-> [i \in 1..Len(RelationTables) |->
                              RelationItems(store, RelationTables[i], x.row)]] :
                x \in tx["r"].rows})]
       \/ outcome' = [outcome EXCEPT !["r"] = Err("error returned from database")]
    /\ ppc' = [ppc EXCEPT !["r"] = "done"]
    /\ tx' = [tx EXCEPT !["r"] = NoTx]
    /\ UNCHANGED <<store, wlock, input, contacted, openVars, fetcherVars>>

(***************************************************************************)
(* SpecStore: two branch updates and one supplement ingestion on a store   *)
(* that earlier harvests and an earlier ingestion have filled.  SpecRead:  *)
(* one branch update, one supplement ingestion and one read.               *)
(***************************************************************************)
NoLists ==
    [depends |-> <<>>, make_depends |-> <<>>, opt_depends |-> <<>>,
     check_depends |-> <<>>, provides |-> <<>>, conflicts |-> <<>>,
     replaces |-> <<>>, groups |-> <<>>]
\* a DatabasePackageDetails
Package(branch, commit_id, committed_at, pkg_name, pkg_version, lists) ==
    [branch |-> branch, commit_id |-> commit_id, committed_at |-> committed_at,
     pkg_name |-> pkg_name, pkg_desc |-> NotNull(TxtPkg), version |-> pkg_version,
     url |-> Null] @@ lists
\* a DatabaseSupplementData
Supplement(pkgname, pkg_version, out_of_date, last_modified) ==
    [pkgname |-> pkgname, version |-> pkg_version, popularity |-> 3, num_votes |-> 7,
     out_of_date |-> out_of_date, maintainer |-> NotNull(TxtFoo), submitter |-> Null,
     first_submitted |-> 11, last_modified |-> last_modified]

\* a branch update as the store sees it when it runs alone and commits
ApplyBranchUpdate(st, u) ==
    LET qs == ClearIndexStatements(u.branch) \o UpdateIndexStatements(u.packages)
              \o UpdateBranchCommitStatements(u.branch, u.commit_id)
    IN  ExecuteFirst(st, qs, Len(qs))
\* store_supplement_data as the store sees it when it runs alone and succeeds
ApplySupplement(st, supplements) ==
    IF supplements = <<>> THEN st
    ELSE LET qs == StoreSupplementStatements(supplements)
             st1 == ExecuteFirst(st, qs, Len(qs))
         IN  UpdateIsListed(st1, MaxLastModified(st1).v - GAP)

\* the earlier harvests: branch foo at c1, branch bar at c5, branch pkg at c7
OldUpdates ==
    <<[branch |-> "foo", commit_id |-> "c1", packages |->
        <<Package("foo", "c1", 913599, TxtFoo, "1",
                  [NoLists EXCEPT !.depends = <<TxtPkg>>, !.groups = <<TxtBar>>])>>],
      [branch |-> "bar", commit_id |-> "c5", packages |->
        <<Package("bar", "c5", 913600, TxtBar, "1",
                  [NoLists EXCEPT !.make_depends = <<TxtFoo>>, !.opt_depends = <<TxtPkg>>])>>],
      [branch |-> "pkg", commit_id |-> "c7", packages |->
        <<Package("pkg", "c7", 100, TxtPkg, "1",
                  [NoLists EXCEPT !.check_depends = <<TxtFoo>>])>>]>>
\* the earlier ingestion
OldSupplements == <<Supplement(TxtPkg, "1", NotNull(999000), 1000000)>>

Harvested ==
    ApplySupplement(
        ApplyBranchUpdate(ApplyBranchUpdate(ApplyBranchUpdate(EmptyStore,
            OldUpdates[1]), OldUpdates[2]), OldUpdates[3]),
        OldSupplements)

PriorStores == {EmptyStore, Harvested}

\* the updates the two updaters may be given
NewUpdates ==
    [u1 |-> {[branch |-> "foo", commit_id |-> "c2", packages |-> <<>>],
             [branch |-> "foo", commit_id |-> "c3", packages |->
                <<Package("foo", "c3", 950000, TxtFoo, "2",
                          [NoLists EXCEPT !.depends = <<TxtBar, TxtFoo>>]),
                  Package("foo", "c3", 950000, TxtPkg \o TxtFoo, "2",
                          [NoLists EXCEPT !.provides = <<TxtPkg>>])>>]},
     u2 |-> {[branch |-> "bar", commit_id |-> "c6", packages |->
                <<Package("bar", "c6", 200, TxtBar, "2",
                          [NoLists EXCEPT !.depends = <<TxtFoo>>])>>]}]

\* the lists store_supplement_data may be given
SupplementLists ==
    { <<>>,
      <<Supplement(TxtPkg, "1", NotNull(999000), 1000000)>>,
      <<Supplement(TxtPkg, "2", Null, 1000000), Supplement(TxtFoo, "2", NotNull(5), 5)>>,
      <<Supplement(TxtPkg, "1", Null, 1000000), Supplement(TxtPkg, "1", Null, 5)>>,
      <<Supplement(TxtBar, "2", NotNull(1000001), 1000001)>> }

\* the variables of the harvester and of DatabaseOps::new, at rest
HarvesterIdle ==
    /\ op = "store"
    /\ pc = "done"
    /\ db = NoDb
    /\ version = 0
    /\ table = 1
    /\ commits = <<>>
    /\ token = NoToken
    /\ phase = "none"
    /\ commit_ids = <<>>
    /\ requests = <<>>
    /\ responses = <<>>
    /\ rd = NoReader
    /\ rd_opened = 0
    /\ dest = <<>>
    /\ tempfile = NoFiles
    /\ commit_data = EmptyMap
    /\ a_outcome = NoResult
    /\ blobs_ret = EmptyMap
    /\ blobs = EmptyMap
    /\ result = NoResult
    /\ branches = EmptyMap
    /\ log = <<>>

InitTasks(positions) ==
    /\ HarvesterIdle
    /\ store \in PriorStores
    /\ wlock = "none"
    /\ tx = [p \in Tasks |-> NoTx]
    /\ ppc = positions
    /\ \E a \in NewUpdates.u1, b \in NewUpdates.u2, l \in SupplementLists :
          input = [u1 |-> a, u2 |-> b, s |-> l, r |-> [fn |-> "none"], f |-> <<>>]
    /\ outcome = [p \in Tasks |-> NoResult]
    /\ contacted = <<>>

InitStore ==
    InitTasks([u1 |-> "begin", u2 |-> "begin", s |-> "store", r |-> "idle", f |-> "idle"])

NextStore ==
    \/ \E u \in Updaters : BeginTransaction(u)
    \/ \E u \in Updaters : ClearIndexWithTx(u)
    \/ \E u \in Updaters : UpdateIndexWithTx(u)
    \/ \E u \in Updaters : UpdateBranchCommitWithTx(u)
    \/ \E u \in Updaters : CommitBranchUpdate(u)
    \/ \E u \in Updaters : DropBranchUpdate(u)
    \/ StoreSupplementData
    \/ WriteSupplement
    \/ CommitSupplement
    \/ DropSupplementTx
    \/ ReadMaxLastModified
    \/ UpdateIsListedStatus

SpecStore == InitStore /\ [][NextStore]_vars

InitRead ==
    InitTasks([u1 |-> "begin", u2 |-> "idle", s |-> "store", r |-> "read", f |-> "idle"])

NextRead ==
    \/ BeginTransaction("u1")
    \/ ClearIndexWithTx("u1")
    \/ UpdateIndexWithTx("u1")
    \/ UpdateBranchCommitWithTx("u1")
    \/ CommitBranchUpdate("u1")
    \/ DropBranchUpdate("u1")
    \/ StoreSupplementData
    \/ WriteSupplement
    \/ CommitSupplement
    \/ DropSupplementTx
    \/ ReadMaxLastModified
    \/ UpdateIsListedStatus
    \/ SearchPackages
    \/ GetPackageDetails
    \/ ReadRelationLists

SpecRead == InitRead /\ [][NextRead]_vars

(***************************************************************************)
(* Claims about the branch updates (SpecStore).                            *)
(***************************************************************************)
\* the columns a branch update binds, of a pkg_info row or of a package
InfoColumns(r) ==
    [branch |-> r.branch, pkg_name |-> r.pkg_name, pkg_desc |-> r.pkg_desc,
     version |-> r.version, url |-> r.url, commit_id |-> r.commit_id,
     committed_at |-> r.committed_at]
\* what the store holds of a branch
BranchRows(st, branch) ==
    [info |-> {InfoColumns(r) : r \in {r \in st.pkg_info : r.branch = branch}},
     relations |-> {r \in st.relations : r.branch = branch},
     commits |-> {r \in st.branch_commits : r.branch = branch}]
\* what an update says the store is to hold of its branch
NewBranchRows(u) ==
    [info |-> {InfoColumns(u.packages[i]) : i \in 1..Len(u.packages)},
     relations |->
        UNION {UNION {{[table |-> RelationTables[t], branch |-> u.packages[i].branch,
                        pkg_name |-> u.packages[i].pkg_name,
                        item |-> PackageLists(u.packages[i])[t][j]] :
                            j \in 1..Len(PackageLists(u.packages[i])[t])} :
                        t \in 1..Len(RelationTables)} :
                   i \in 1..Len(u.packages)},
     commits |-> {[branch |-> u.branch, commit_id |-> u.commit_id]}]
\* what the store holds that is not of the branch
OtherRows(st, branch) ==
    [st EXCEPT !.pkg_info = {r \in @ : r.branch # branch},
               !.relations = {r \in @ : r.branch # branch},
               !.branch_commits = {r \in @ : r.branch # branch}]

\* C22: a branch update (clear_index_with_tx, update_index_with_tx,
\* update_branch_commit_with_tx in one transaction) is atomic: a step of it
\* that is not its successful commit (a failed step, the drop of the
\* transaction) leaves the committed content of every table as it was; its
\* successful commit leaves, for the branch, exactly the pkg_info and relation
\* rows of the new packages and the new commit id in branch_commits, and
\* leaves the rest as it was; and no committed state holds, for the branch of
\* an update, anything but the rows from before or the rows of the update.
C22_BranchUpdateIsAtomic ==
    [][\A u \in Updaters :
          /\ ppc'[u] # ppc[u] =>
                IF ppc[u] = "commit" /\ outcome'[u].kind = "Ok"
                THEN /\ BranchRows(store', input[u].branch) = NewBranchRows(input[u])
                     /\ OtherRows(store', input[u].branch) = OtherRows(store, input[u].branch)
                ELSE store' = store
          /\ BranchRows(store', input[u].branch) \in
                {BranchRows(prior, input[u].branch) : prior \in PriorStores}
                \cup {NewBranchRows(input[u])}]_vars

\* one update has committed two packages, the other has failed after it had
\* written into its transaction
C22_Witness ==
    /\ ppc["u1"] = "done"
    /\ outcome["u1"].kind = "Ok"
    /\ Len(input["u1"].packages) = 2
    /\ ppc["u2"] = "failed"
    /\ wlock = "u2"
    /\ BranchRows(tx["u2"].work, "bar") # BranchRows(store, "bar")
    /\ BranchRows(store, "bar") = BranchRows(Harvested, "bar")
    /\ BranchRows(store, "bar").info # {}

\* the other of the two updaters
Other(u) == CHOOSE v \in Updaters : v # u

\* C23: branch updates of two different branches may run concurrently: in
\* every interleaving the commit of an update changes the committed content
\* exactly as the update run alone on that content would, the two updates
\* give the same content in either order, the commit of one leaves the rows
\* of the other's branch as they were, and once both have committed (and
\* nothing else has written) the store is what the two updates run one after
\* the other, in either order, make of the store they started from.
C23_ConcurrentBranchUpdatesAreSerial ==
    [][\A u \in Updaters :
          LET v == Other(u)
              OneThenOther(st, a, b) == ApplyBranchUpdate(ApplyBranchUpdate(st, a), b)
          IN  /\ (ppc[u] = "commit" /\ ppc'[u] = "done" /\ outcome'[u].kind = "Ok") =>
                    /\ store' = ApplyBranchUpdate(store, input[u])
                    /\ OneThenOther(store, input[u], input[v])
                           = OneThenOther(store, input[v], input[u])
                    /\ BranchRows(store', input[v].branch)
                           = BranchRows(store, input[v].branch)
              /\ ( /\ ppc'[u] = "done" /\ outcome'[u].kind = "Ok"
                   /\ ppc'[v] = "done" /\ outcome'[v].kind = "Ok"
                   /\ ppc'["s"] = "store" ) =>
                    /\ store' \in {OneThenOther(prior, input[u], input[v]) :
                                        prior \in PriorStores}
                    /\ store' \in {OneThenOther(prior, input[v], input[u]) :
                                        prior \in PriorStores}]_vars

\* both updates have committed on the harvested store
C23_Witness ==
    /\ ppc["u1"] = "done" /\ outcome["u1"].kind = "Ok"
    /\ ppc["u2"] = "done" /\ outcome["u2"].kind = "Ok"
    /\ Len(input["u1"].packages) = 2
    /\ BranchRows(store, "pkg").info # {}
    /\ BranchRows(store, "foo") = NewBranchRows(input["u1"])
    /\ BranchRows(store, "bar") = NewBranchRows(input["u2"])

(***************************************************************************)
(* Claims about the supplement ingestion (SpecStore).                      *)
(***************************************************************************)
\* store_supplement_data returns Ok in this step
SupplementStored ==
    /\ ppc["s"] # "done"
    /\ ppc'["s"] = "done"
    /\ outcome'["s"].kind = "Ok"
\* the largest last_modified of a non-empty list
MaxOfList(supplements) ==
    CHOOSE m \in {supplements[i].last_modified : i \in 1..Len(supplements)} :
        \A i \in 1..Len(supplements) : supplements[i].last_modified <= m

\* C24: immediately after a successful store_supplement_data with a
\* non-empty list whose maximum last_modified is T, every pkg_info row has
\* is_listed = 0 if its name is not in the supplement and its committed_at is
\* below T - 86400, and is_listed = 1 otherwise.
C24_ListedAfterIngestion ==
    [][(SupplementStored /\ input["s"] # <<>>) =>
          LET T == MaxOfList(input["s"])
              names == {input["s"][i].pkgname : i \in 1..Len(input["s"])}
          IN  \A p \in store'.pkg_info :
                  p.is_listed =
                      IF p.pkg_name \notin names /\ p.committed_at < T - 86400
                      THEN 0 ELSE 1]_vars

(***************************************************************************)
(* Claims about the reads (SpecRead).                                      *)
(***************************************************************************)
\* the supplement rows of a package name
SupplementsOf(st, pkg_name) == {s \in st.pkg_supplement : s.pkgname = pkg_name}
\* an info carries the version-independent fields of supplement row s
CarriesSupplement(info, s) ==
    /\ info.popularity = NotNull(s.popularity)
    /\ info.num_votes = NotNull(s.num_votes)
    /\ info.maintainer = s.maintainer
    /\ info.submitter = s.submitter
    /\ info.first_submitted = NotNull(s.first_submitted)
\* an info has the time-sensitive fields of supplement row s exactly when
\* the versions are equal
GatedByVersion(info, s) ==
    IF s.version = info.version
    THEN info.out_of_date = s.out_of_date /\ info.last_modified = NotNull(s.last_modified)
    ELSE info.out_of_date = Null /\ info.last_modified = Null

\* C25: for every listed package whose name has a supplement row,
\* get_package_details returns the supplement's out_of_date and last_modified
\* verbatim when the supplement version equals the pkg_info version and
\* returns both as absent when the versions differ; popularity, num_votes,
\* maintainer, submitter and first_submitted come from the supplement in both
\* cases.  (The main query builds one info per listed row of the names asked
\* for; the call returns exactly these infos.)
C25_DetailsGateOnVersion ==
    [][/\ (ppc["r"] = "read" /\ ppc'["r"] = "lists") =>
            /\ \A p \in store.pkg_info :
                  (p.is_listed = 1 /\ \E i \in 1..Len(input'["r"].package_names) :
                                          input'["r"].package_names[i] = p.pkg_name)
                  => \E x \in tx'["r"].rows : x.row = p
            /\ \A x \in tx'["r"].rows :
                  /\ x.info.branch = x.row.branch
                  /\ x.info.pkg_name = x.row.pkg_name
                  /\ x.info.version = x.row.version
                  /\ \A s \in SupplementsOf(store, x.row.pkg_name) :
                        CarriesSupplement(x.info, s) /\ GatedByVersion(x.info, s)
       /\ (ppc["r"] = "lists" /\ outcome'["r"].kind = "Ok") =>
            {y.info : y \in outcome'["r"].value} = {x.info : x \in tx["r"].rows}]_vars

\* a detail lookup has returned one package with the time-sensitive fields
\* (versions equal) and one with the other supplement fields only
C25_Witness ==
    /\ ppc["r"] = "done"
    /\ input["r"].fn = "get_package_details"
    /\ outcome["r"].kind = "Ok"
    /\ \E a, b \in outcome["r"].value :
          /\ a.info.last_modified.some /\ a.info.out_of_date.some
          /\ b.info.popularity.some /\ ~b.info.last_modified.some

\* search_packages returns Ok in this step
SearchReturned ==
    /\ ppc["r"] = "read"
    /\ ppc'["r"] = "done"
    /\ input'["r"].fn = "search_packages"
    /\ outcome'["r"].kind = "Ok"

\* C26: search_packages applies the same version-matches gate as the detail
\* lookup: for every result row with a supplement row, out_of_date and
\* last_modified are the supplement's values when the supplement version
\* equals the package version and are absent when it differs, in all six
\* search modes.
C26_SearchGateOnVersion ==
    [][SearchReturned =>
          \A info \in outcome'["r"].value :
              \A s \in SupplementsOf(store, info.pkg_name) : GatedByVersion(info, s)]_vars

\* C27: in every reachable store state no read returns a package whose
\* is_listed is 0: every row search_packages returns, in each of its six
\* modes, and every row the main query of get_package_details selects (the
\* rows the call returns) is a pkg_info row of the store read that has
\* is_listed = 1 there.
C27_ReadsReturnListedOnly ==
    [][/\ SearchReturned =>
            \A info \in outcome'["r"].value :
                \E p \in store.pkg_info :
                    /\ p.branch = info.branch
                    /\ p.pkg_name = info.pkg_name
                    /\ p.is_listed = 1
       /\ (ppc["r"] = "read" /\ ppc'["r"] = "lists") =>
            \A x \in tx'["r"].rows : x.row \in store.pkg_info /\ x.row.is_listed = 1
       /\ (ppc["r"] = "lists" /\ outcome'["r"].kind = "Ok") =>
            \A y \in outcome'["r"].value :
                \E x \in tx["r"].rows : x.info = y.info]_vars

\* a search has returned a package while the store read held another one,
\* unlisted, that its WHERE clause matches but for the filter
C27_Witness ==
    /\ ppc["r"] = "done"
    /\ ppc["s"] = "store"
    /\ ppc["u1"] = "begin"
    /\ input["r"].fn = "search_packages"
    /\ outcome["r"].kind = "Ok"
    /\ outcome["r"].value # {}
    /\ \E p \in SearchMatchesUnfiltered(store, input["r"].search_type, input["r"].keyword) :
          p.is_listed = 0

\* C28 as claimed: a supplement refresh that fails before its clearing step
\* leaves the previous pkg_supplement rows intact; one that fails after the
\* clearing step has executed (on an insert, say) leaves pkg_supplement empty.
\* (The DELETE has executed exactly when the failing call holds the write
\* lock.)
C28_FailureAfterClearingLeavesEmpty ==
    [][(ppc["s"] = "failed" /\ ppc'["s"] = "done") =>
          IF wlock = "s"
          THEN store'.pkg_supplement = {}
          ELSE store'.pkg_supplement = store.pkg_supplement]_vars

\* C28 amended: a supplement refresh that fails before its transaction has
\* committed, before the clearing step or after it (on an insert, on the
\* commit), leaves the previous pkg_supplement rows intact: the committed
\* rows of pkg_supplement change in no step but the successful commit of
\* store_supplement_data, which makes them the rows of the new list, and a
\* call that returns an error without having committed returns with the rows
\* the store had before.
C28_FailedRefreshKeepsPreviousRows ==
    [][/\ store'.pkg_supplement # store.pkg_supplement =>
            /\ ppc["s"] = "commit" /\ ppc'["s"] = "max"
            /\ store'.pkg_supplement =
                  ExecuteFirst(EmptyStore, StoreSupplementStatements(input["s"]),
                               1 + Len(input["s"])).pkg_supplement
       /\ ( /\ ppc["s"] \in {"store", "failed"}
            /\ ppc'["s"] = "done"
            /\ outcome'["s"].kind = "Err" ) =>
            store'.pkg_supplement \in {prior.pkg_supplement : prior \in PriorStores}]_vars

\* a refresh on the harvested store has executed its DELETE and failed on
\* its first insert; the committed rows are the previous ones
C28_Witness ==
    /\ ppc["s"] = "failed"
    /\ wlock = "s"
    /\ tx["s"].work.pkg_supplement = {}
    /\ store.pkg_supplement = Harvested.pkg_supplement
    /\ store.pkg_supplement # {}

(***************************************************************************)
(* SupplementFetcher::fetch_supplement_data (src/src/supplement_fetcher.rs)*)
(* SpecFetch: one call with a list of sources, one step per turn of its    *)
(* loop.                                                                   *)
(***************************************************************************)
MaxSources == 3

\* the sources a caller may name
Sources == {"none", "None", "https://aur/packages-meta-ext-v1.json.gz", "/srv/meta.json"}
\* source.starts_with("http://") || source.starts_with("https://")
IsUrl(source) == source = "https://aur/packages-meta-ext-v1.json.gz"

\* the lists a source may hold
FetchedLists == {<<>>, <<Supplement(TxtPkg, "1", Null, 1000000)>>}

\* fetch_from_source: what the fetch, the decompression and the parse of one
\* source may give
FetchFromSource(source) ==
    (IF IsUrl(source)
     THEN {Err("error sending request"), Err("HTTP error")}
     ELSE {Err("No such file or directory")})
    \cup {Err("invalid gzip header"), Err("expected value")}
    \cup {Ok(data) : data \in FetchedLists}

\* the list of sources of length n or less
RECURSIVE SourceLists(_)
SourceLists(n) ==
    IF n = 0 THEN {<<>>}
    ELSE SourceLists(n - 1)
         \cup {Append(l, s) : l \in {l \in SourceLists(n - 1) : Len(l) = n - 1}, s \in Sources}

\* one turn of `for source in sources`; a source other than `none` is
\* contacted and what it gave is kept in `contacted`
SourceAt == tx["f"].at
\* a loop without the `if source == "none" { continue; }` of lines 24-26
FetchSupplementDataTurnWithoutSkip ==
    /\ ppc["f"] = "fetch"
    /\ SourceAt <= Len(input["f"])
    /\ LET source == input["f"][SourceAt]
       IN  \E fetched \in FetchFromSource(source) :
               /\ contacted' = Append(contacted, [source |-> source, fetched |-> fetched])
               /\ IF fetched.kind = "Ok"
                  THEN /\ outcome' = [outcome EXCEPT !["f"] = fetched]
                       /\ ppc' = [ppc EXCEPT !["f"] = "done"]
                       /\ UNCHANGED tx
                  ELSE /\ tx' = [tx EXCEPT !["f"].at = SourceAt + 1]
                       /\ UNCHANGED <<ppc, outcome>>
    /\ UNCHANGED <<store, wlock, input, openVars, fetcherVars>>
FetchSupplementDataTurn ==
    /\ ppc["f"] = "fetch"
    /\ SourceAt <= Len(input["f"])
    /\ LET source == input["f"][SourceAt]
       IN  IF source = "none"
           THEN /\ tx' = [tx EXCEPT !["f"].at = SourceAt + 1]
                /\ UNCHANGED <<ppc, outcome, contacted>>
           ELSE \E fetched \in FetchFromSource(source) :
                   /\ contacted' = Append(contacted, [source |-> source, fetched |-> fetched])
                   /\ IF fetched.kind = "Ok"
                      THEN /\ outcome' = [outcome EXCEPT !["f"] = fetched]
                           /\ ppc' = [ppc EXCEPT !["f"] = "done"]
                           /\ UNCHANGED tx
                      ELSE /\ tx' = [tx EXCEPT !["f"].at = SourceAt + 1]
                           /\ UNCHANGED <<ppc, outcome>>
    /\ UNCHANGED <<store, wlock, input, openVars, fetcherVars>>

\* the loop has run out of sources
FetchSupplementDataExhausted ==
    /\ ppc["f"] = "fetch"
    /\ SourceAt > Len(input["f"])
    /\ outcome' = [outcome EXCEPT !["f"] =
            Err("Failed to fetch supplement data from all provided sources")]
    /\ ppc' = [ppc EXCEPT !["f"] = "done"]
    /\ UNCHANGED <<store, wlock, tx, input, contacted, openVars, fetcherVars>>

InitFetch ==
    /\ HarvesterIdle
    /\ store = EmptyStore
    /\ wlock = "none"
    /\ tx = [p \in Tasks |-> NoTx]
    /\ ppc = [u1 |-> "idle", u2 |-> "idle", s |-> "idle", r |-> "idle", f |-> "fetch"]
    /\ \E sources \in SourceLists(MaxSources) :
          input = [u1 |-> <<>>, u2 |-> <<>>, s |-> <<>>, r |-> [fn |-> "none"], f |-> sources]
    /\ outcome = [p \in Tasks |-> NoResult]
    /\ contacted = <<>>

NextFetch ==
    \/ FetchSupplementDataTurn
    \/ FetchSupplementDataExhausted

SpecFetch == InitFetch /\ [][NextFetch]_vars

(***************************************************************************)
(* Claims about fetch_supplement_data (SpecFetch).                         *)
(***************************************************************************)
\* the sources of a list that are not the literal `none`, in list order
NotNone(sources) == SelectSeq(sources, LAMBDA s : s # "none")

\* C29: fetch_supplement_data tries its sources in list order and never
\* contacts a source equal to the literal `none` (the sources contacted are
\* always a prefix of the list without its `none` entries); it contacts a
\* further source only while every source contacted so far has failed; it
\* returns the data of the first source that succeeds, contacting none after
\* it; and it returns an error exactly when no source succeeds, having then
\* tried them all (an empty list and a list of `none` only included).
C29_SourcesTriedInOrder ==
    LET tried == NotNone(input["f"])
        n == Len(contacted)
    IN  /\ n <= Len(tried)
        /\ \A i \in 1..n : contacted[i].source = tried[i]
        /\ \A i \in 1..(n - 1) : contacted[i].fetched.kind = "Err"
        /\ ppc["f"] = "fetch" => \A i \in 1..n : contacted[i].fetched.kind = "Err"
        /\ ppc["f"] = "done" =>
              /\ outcome["f"].kind \in {"Ok", "Err"}
              /\ outcome["f"].kind = "Ok" =>
                    /\ n >= 1
                    /\ contacted[n].fetched.kind = "Ok"
                    /\ outcome["f"] = contacted[n].fetched
              /\ outcome["f"].kind = "Err" <=>
                    \A i \in 1..n : contacted[i].fetched.kind = "Err"
              /\ outcome["f"].kind = "Err" => n = Len(tried)

\* a call has skipped a leading `none`, returned the data of a source it
\* contacted and left the last source of its list alone
C29_Witness ==
    /\ ppc["f"] = "done"
    /\ outcome["f"].kind = "Ok"
    /\ Len(input["f"]) = MaxSources
    /\ input["f"][1] = "none"
    /\ input["f"][MaxSources] # "none"
    /\ Len(contacted) = MaxSources - 2
    /\ outcome["f"].value # <<>>

(***************************************************************************)
(* Claims about the determinism of the extraction (Spec).                  *)
(***************************************************************************)
\* C30: extraction is deterministic and its result does not depend on the
\* iteration order of the intermediate maps: for the pack Phase A has
\* received, map_commit_id_to_srcinfo_blob_id_and_timestamp gives the same
\* commit -> (blob id, committed_at) map (or the same error) whatever the
\* order in which commit_to_tree_and_timestamp hands out its commits.
C30_ExtractionIndependentOfMapOrder ==
    (op = "batch" /\ pc = "decode" /\ phase = "A" /\ HasPackHeader(dest)) =>
        \A o1, o2 \in Orders(DOMAIN CommitScan(dest).c2t) :
            MapCommits(dest, o1) = MapCommits(dest, o2)

(***************************************************************************)
(* Claims about the tree scan of Phase A (Spec).                           *)
(***************************************************************************)
\* the tree objects the scan of a pack decodes
TreesOf(bytes) ==
    LET objs == EntriesOffset(Tail(bytes))
    IN  { objs[i] : i \in { j \in 1..Len(objs) : objs[j].kind = "tree" } }

\* the positions of a tree's entries whose filename is exactly .SRCINFO and
\* whose mode is that of a regular or an executable file
SrcinfoFiles(t) ==
    { i \in 1..Len(t.entries) :
        /\ t.entries[i].filename = ".SRCINFO"
        /\ t.entries[i].mode \notin {"tree", "link", "commit"} }

\* C31: when the scan of the Phase A pack goes through, every tree object of
\* the pack that has an entry named exactly .SRCINFO with the mode of a
\* regular or executable file is recorded in the tree map with the oid of
\* the first such entry in tree order, and a tree without such an entry (its
\* .SRCINFO entries are directories, symlinks or gitlinks only) is not a key
\* of the tree map.
C31_TreeMapsToFirstSrcinfoFile ==
    (op = "batch" /\ pc = "decode" /\ phase = "A" /\ HasPackHeader(dest)
        /\ CommitScan(dest).err.kind # "Err") =>
        \A t \in TreesOf(dest) :
            IF SrcinfoFiles(t) = {}
            THEN t.id \notin DOMAIN CommitScan(dest).t2b
            ELSE /\ t.id \in DOMAIN CommitScan(dest).t2b
                 /\ CommitScan(dest).t2b[t.id] = t.entries[Least(SrcinfoFiles(t))].oid

\* Phase A is about to decode a pack that scans without error and holds a
\* tree whose .SRCINFO entries are a symlink, a gitlink and a directory, a
\* tree whose first .SRCINFO entry is a directory and whose second is an
\* executable file, and a tree with two .SRCINFO files
C31_Witness ==
    /\ op = "batch" /\ pc = "decode" /\ phase = "A" /\ HasPackHeader(dest)
    /\ CommitScan(dest).err.kind # "Err"
    /\ \E t \in TreesOf(dest) :
         /\ SrcinfoFiles(t) = {}
         /\ { t.entries[i].mode : i \in { j \in 1..Len(t.entries) :
                  t.entries[j].filename = ".SRCINFO" } } = {"link", "commit", "tree"}
    /\ \E t \in TreesOf(dest) :
         /\ t.entries[1].filename = ".SRCINFO" /\ t.entries[1].mode = "tree"
         /\ Least(SrcinfoFiles(t)) = 2
    /\ \E t \in TreesOf(dest) : Cardinality(SrcinfoFiles(t)) = 2

(***************************************************************************)
(* Claims about an interrupted migration (SpecDbFair: an open under way    *)
(* goes on to its next statement, and a failed open is tried again).       *)
(***************************************************************************)
SpecDbFair == SpecDb /\ WF_vars(NextDb)

\* a successful open has returned on a file whose version is the current one
\* and none of whose data tables holds a row of the file as it was given
OpenedCurrentAndEmptied ==
    (op = "open" /\ pc = "done" /\ result.kind = "Ok") =>
        /\ db.user_version = CURRENT_DB_VERSION
        /\ \A n \in DOMAIN db.tables : db.tables[n] = {}

\* C32: once an open has found the store outdated and has entered the loop
\* dropping the tables (the effective version is 1: a version cell of 1, or of
\* 0 with a pkg_info table), then however that open fails, after any number
\* of dropped tables, every later open that succeeds ends with the current
\* version persisted and with no data table holding rows written before the
\* migration.
C32_InterruptedMigrationIsCompleted ==
    []((op = "open" /\ pc = "drop") => []OpenedCurrentAndEmptied)

(***************************************************************************)
(* Claims about the is_listed flags (SpecRead).                            *)
(***************************************************************************)
\* the rows a committed store_supplement_data leaves in pkg_supplement
NewSupplementRows ==
    LET qs == StoreSupplementStatements(input["s"])
    IN  ExecuteFirst(EmptyStore, qs, Len(qs)).pkg_supplement

\* the pkg_info rows with the flags update_is_listed_status computes from the
\* committed pkg_supplement
RecomputedInfo ==
    IF MaxLastModified(store).some
    THEN UpdateIsListed(store, MaxLastModified(store).v - GAP).pkg_info
    ELSE store.pkg_info

\* C33: the new supplement and the recomputed is_listed flags become visible
\* together: in every committed state (what a search or a detail lookup on
\* the pool reads) in which pkg_supplement holds the rows of the list given
\* to store_supplement_data, the is_listed flags of pkg_info are the ones
\* recomputed from those rows, whether or not the recomputation has failed;
\* branch updates, which write flags of their own, have not committed.
C33_SupplementAndFlagsVisibleTogether ==
    (/\ input["s"] # <<>>
     /\ store.pkg_supplement = NewSupplementRows
     /\ \A u \in Updaters : outcome[u].kind # "Ok") =>
        store.pkg_info = RecomputedInfo

\* the pkg_info rows of a branch
InfoOf(st, branch) == {r \in st.pkg_info : r.branch = branch}

\* the UPDATE of update_is_listed_status is sent in this step
FlagsRecomputed == ppc["s"] = "update" /\ ppc'["s"] = "done"

\* C34: update_index_with_tx writes every package row with is_listed = 1,
\* also over a row of the same branch and name that the last ingestion had
\* set to 0; when a branch update commits, the branch's rows are its packages,
\* all with is_listed = 1; no step but the UPDATE of a non-empty supplement
\* ingestion changes the rows of a committed update's branch; and a name
\* search returns every row with is_listed = 1 that its pattern matches, so a
\* committed update's packages are found by name until that UPDATE runs.
C34_BranchUpdateRelistsItsPackages ==
    [][/\ \A u \in Updaters :
            /\ \A r \in InfoOf(ExecuteFirst(store, UpdateIndexStatements(input[u].packages),
                                   Len(UpdateIndexStatements(input[u].packages))),
                               input[u].branch) :
                  (\E i \in 1..Len(input[u].packages) :
                        input[u].packages[i].pkg_name = r.pkg_name) => r.is_listed = 1
            /\ (ppc[u] = "index" /\ ppc'[u] = "branch_commit") =>
                  \A r \in InfoOf(tx'[u].work, input[u].branch) : r.is_listed = 1
            /\ (ppc[u] = "commit" /\ ppc'[u] = "done" /\ outcome'[u].kind = "Ok") =>
                  /\ \A r \in InfoOf(store', input[u].branch) : r.is_listed = 1
                  /\ {InfoColumns(r) : r \in InfoOf(store', input[u].branch)}
                        = NewBranchRows(input[u]).info
            /\ (ppc[u] = "done" /\ outcome[u].kind = "Ok" /\ ~FlagsRecomputed) =>
                  InfoOf(store', input[u].branch) = InfoOf(store, input[u].branch)
       /\ (SearchReturned /\ input'["r"].search_type = "Name") =>
            \A p \in store.pkg_info :
                (p.is_listed = 1 /\ Like(p.pkg_name, input'["r"].keyword)) =>
                    \E info \in outcome'["r"].value :
                        info.branch = p.branch /\ info.pkg_name = p.pkg_name]_vars

\* a branch update has committed a package over a row of the same branch and
\* name that the last ingestion had set to is_listed = 0, the ingestion under
\* way has committed its rows but not yet recomputed the flags, and a name
\* search has then returned the package
C34_Witness ==
    /\ ppc["u1"] = "done" /\ outcome["u1"].kind = "Ok"
    /\ \E old \in Harvested.pkg_info, r \in store.pkg_info :
          /\ old.is_listed = 0
          /\ old.branch = r.branch /\ old.pkg_name = r.pkg_name
          /\ r.commit_id = input["u1"].commit_id
          /\ r.is_listed = 1
          /\ ppc["r"] = "done" /\ input["r"].fn = "search_packages"
          /\ input["r"].search_type = "Name"
          /\ outcome["r"].kind = "Ok"
          /\ \E info \in outcome["r"].value :
                info.pkg_name = r.pkg_name /\ info.commit_id = r.commit_id
    /\ ppc["s"] \in {"max", "update"}

(***************************************************************************)
(* Claims about an empty supplement list (SpecStore).                      *)
(***************************************************************************)
\* the is_listed flag of every pkg_info row, by branch and package name
ListedFlags(st) ==
    {[branch |-> r.branch, pkg_name |-> r.pkg_name, is_listed |-> r.is_listed] :
        r \in st.pkg_info}

\* C35: store_supplement_data called with an empty list is a no-op: its one
\* step returns Ok and leaves the committed store, every transaction and the
\* write lock as they were, so that every pkg_supplement row and every
\* is_listed flag is as before the call; and with an empty list no step of
\* any task changes pkg_supplement while the call is under way or after it.
C35_EmptyListIsNoOp ==
    [][input["s"] = <<>> =>
          /\ store'.pkg_supplement = store.pkg_supplement
          /\ ppc'["s"] # ppc["s"] =>
                /\ ppc["s"] = "store"
                /\ ppc'["s"] = "done"
                /\ outcome'["s"].kind = "Ok"
                /\ store' = store
                /\ ListedFlags(store') = ListedFlags(store)
                /\ tx' = tx
                /\ wlock' = wlock]_vars

\* store_supplement_data has returned Ok for an empty list on a store that
\* holds the supplement rows of the previous ingestion and a package that
\* ingestion had unlisted
C35_Witness ==
    /\ input["s"] = <<>>
    /\ ppc["s"] = "done"
    /\ outcome["s"].kind = "Ok"
    /\ store.pkg_supplement = Harvested.pkg_supplement
    /\ store.pkg_supplement # {}
    /\ \E r \in store.pkg_info : r.is_listed = 0

(***************************************************************************)
(* SpecReopen: a branch update and a supplement ingestion, after which the *)
(* store is closed and DatabaseOps::new is called on its file.             *)
(***************************************************************************)
\* the file of a store: its eleven tables, each the set of its rows
TablesOf(st) ==
    [n \in {TableNames[i] : i \in 1..Len(TableNames)} |->
        CASE n = "branch_commits" -> st.branch_commits
          [] n = "pkg_info" -> st.pkg_info
          [] n = "pkg_supplement" -> st.pkg_supplement
          [] OTHER -> {r \in st.relations : r.table = n}]

\* lines 19-30: every task on the store has returned, the pool is closed and
\* new() is called on the file, which carries the version of the program
\* that wrote it
CloseAndOpen ==
    /\ op = "store"
    /\ \A p \in Updaters \cup {"s"} : ppc[p] \in {"done", "idle"}
    /\ wlock = "none"
    /\ \E v \in PriorVersions : db' = [user_version |-> v, tables |-> TablesOf(store)]
    /\ op' = "open"
    /\ pc' = "connect"
    /\ result' = NoResult
    /\ version' = 0
    /\ table' = 1
    /\ UNCHANGED <<fetcherVars, storeVars>>

InitReopen ==
    InitTasks([u1 |-> "begin", u2 |-> "idle", s |-> "store", r |-> "idle", f |-> "idle"])

NextReopen ==
    \/ BeginTransaction("u1")
    \/ ClearIndexWithTx("u1")
    \/ UpdateIndexWithTx("u1")
    \/ UpdateBranchCommitWithTx("u1")
    \/ CommitBranchUpdate("u1")
    \/ DropBranchUpdate("u1")
    \/ StoreSupplementData
    \/ WriteSupplement
    \/ CommitSupplement
    \/ DropSupplementTx
    \/ ReadMaxLastModified
    \/ UpdateIsListedStatus
    \/ CloseAndOpen
    \/ NextDb

SpecReopen == InitReopen /\ [][NextReopen]_vars

(***************************************************************************)
(* Claims about the open of a store of the current version (SpecReopen).   *)
(***************************************************************************)
\* C36: opening a store whose persisted version equals the current version
\* drops no table and changes no row: after any branch updates and any
\* supplement ingestion, followed by a close and a re-open, no statement of
\* the open (nor of a further open after a failed one) changes the version
\* or the contents of a data table, so that all eleven tables hold after the
\* re-open exactly the rows that were committed before it.
C36_OpenOfCurrentStoreChangesNoRow ==
    [][(/\ op = "open"
        /\ db.user_version = CURRENT_DB_VERSION
        /\ db.tables = TablesOf(store)) =>
            /\ db'.user_version = CURRENT_DB_VERSION
            /\ db'.tables = TablesOf(store)]_vars

\* a branch update and a non-empty supplement ingestion have committed, the
\* store was closed with the current version, and an open that read that
\* version has returned Ok on the same rows
C36_Witness ==
    /\ op = "open" /\ pc = "done" /\ result.kind = "Ok"
    /\ version = CURRENT_DB_VERSION
    /\ db.tables = TablesOf(store)
    /\ \E u \in Updaters : outcome[u].kind = "Ok" /\ input[u].packages # <<>>
    /\ input["s"] # <<>> /\ outcome["s"].kind = "Ok"
    /\ db.tables["pkg_info"] # {}
    /\ db.tables["pkg_depends"] # {}
    /\ db.tables["pkg_supplement"] # {}
    /\ \E r \in db.tables["pkg_info"] : r.is_listed = 0

(***************************************************************************)
(* Claims about the termination of read_packfile_from_fetch_response       *)
(* (SpecDemuxFair: the task is polled as long as it has a step to take).   *)
(***************************************************************************)
SpecDemuxFair == SpecDemux /\ WF_vars(NextDemux)

\* C37: read_packfile_from_fetch_response terminates on every finite
\* response stream, truncated ones and those with any number of non-packfile
\* sections or an empty section included: it eventually leaves its loop,
\* having returned Ok after the packfile section or an error.
C37_ReadPackfileTerminates ==
    <>(pc \notin {"hdr", "skip", "copy"})

====
